---- MODULE Spec2Model ----
(***************************************************************************)
(* A model of the TypeScript static-analysis server: the analysis tools of *)
(* src/src/tools.ts, the analyzer of src/src/analyzer.ts, the helpers of   *)
(* src/src/utils.ts and the caching layer of src/src/cache.ts.             *)
(*                                                                         *)
(* Each area of the program has its own specification over the variables   *)
(* it uses; the variables of the other areas keep their initial values.    *)
(***************************************************************************)
EXTENDS Integers, Sequences, FiniteSets, TLC

VARIABLES
    \* ---- persistent analysis cache (cache.ts, DiskCache + CacheManager)
    analysisStore,   \* node-persist storage: key -> stored entry or NoEntry
    now,             \* Date.now()
    optionsTtl,      \* the ttl option given to the CacheManager constructor
    cacheOp,         \* the last cache operation and what it returned
    lastSet,         \* history: per key, the data of the last setCachedAnalysis
    \* ---- cache keys (cache.ts, CacheManager.generateCacheKey)
    keyPrev,         \* the call of generateCacheKey before the last one
    keyLast,         \* the last call of generateCacheKey: its parts and its key
    toolCall,        \* the last call of a file-scoped tool and how it ended
    complexityCalls, \* the calls of getNodeComplexity made so far: node and result
    smellsCall,      \* the last call of detectComplexitySmells and the smells it pushed
    analyzeCall,     \* the last call of analyzeSourceFile and what it returned
    refsCall,        \* the last call of findReferences and what it returned
    extractCall,     \* the last call of extractSymbolInfo and what it returned
    patternsCall,    \* findPatterns: the files to scan, the matches collected, the result
    summaryCall,     \* summarizeCodebase: the files, what the fan-out collected, the result
    caches,          \* the entries held by each cache of the process
    clock,           \* the time of the process, in ms
    fileCall,        \* analyzeFile: the call, its timeout race and how it ended
    limiter,         \* limit = pLimit(5): its count of running work and its queue
    fanOuts,         \* per multi-file operation: its files, those running, those done
    searchCall,      \* searchSymbols: the files in their order of arrival, the matches, the result
    optionsInvalidation, \* the invalidation option given to the CacheManager constructor
    fileCache,       \* CacheManager.fileCache: the entry of the path, or none
    disk,            \* the file of the path on disk: its modification time and content
    workers,         \* per worker: where it is in getCachedFile or setCachedFile, and what it read
    started,         \* history: the cache operations started, the entries inserted
    fileLru,         \* CacheManager.fileCache: its entries, least recently used first
    symbolLru,       \* CacheManager.symbolCache: its entries, least recently used first
    forgotten,       \* the source files on which forget() was called
    rewritten,       \* the paths whose file was rewritten
    lruCall,         \* the last operation on a bounded cache and what it returned
    lruPending,      \* the getCachedFile waiting for isFileCacheValid: its path, the entry read
    lruUses,         \* history: per cache and key, the number of the operation that last used it
    contextCall,     \* the last call of extractContext and what it returned
    hierarchyCall    \* getTypeHierarchy: the hierarchy, the calls of processType to be made, the types listed

cacheVars == <<analysisStore, now, optionsTtl, cacheOp, lastSet>>
keyVars == <<keyPrev, keyLast>>
scopeVars == <<toolCall>>
complexityVars == <<complexityCalls>>
smellsVars == <<smellsCall>>
analyzeVars == <<analyzeCall, extractCall>>
refsVars == <<refsCall>>
patternsVars == <<patternsCall>>
summaryVars == <<summaryCall>>
fileVars == <<caches, clock, fileCall>>
limitVars == <<limiter, fanOuts>>
searchVars == <<searchCall>>
parsedVars == <<optionsInvalidation, fileCache, disk, workers, started>>
lruVars == <<fileLru, symbolLru, forgotten, rewritten, lruCall, lruPending, lruUses>>
contextVars == <<contextCall>>
hierarchyVars == <<hierarchyCall>>

vars ==
    <<cacheVars, keyVars, scopeVars, complexityVars, smellsVars, analyzeVars, refsVars,
      patternsVars, summaryVars, fileVars, limitVars, searchVars, parsedVars, lruVars, contextVars, hierarchyVars>>

(***************************************************************************)
(* JavaScript values.  A value is a record [t, s, kids]: t is the typeof   *)
(* class, s the text of a scalar, kids the members of an object (in        *)
(* insertion order) or the elements of an array, each [k |-> key, v].      *)
(***************************************************************************)
Num(s) == [t |-> "number", s |-> s, kids |-> <<>>]
Str(s) == [t |-> "string", s |-> s, kids |-> <<>>]
Null == [t |-> "null", s |-> "null", kids |-> <<>>]
Undefined == [t |-> "undefined", s |-> "undefined", kids |-> <<>>]
NaN == Num("NaN")
Obj(members) == [t |-> "object", s |-> "", kids |-> members]
Member(k, v) == [k |-> k, v |-> v]
ArrKids(kids) == [t |-> "array", s |-> "", kids |-> kids]
Arr(elems) == ArrKids([i \in 1..Len(elems) |-> Member(ToString(i - 1), elems[i])])

\* value[P]: the member of an object under key P, undefined when there is none.
GetMember(value, P) ==
    LET idx == {i \in 1..Len(value.kids) : value.kids[i].k = P}
    IN IF idx = {} THEN Undefined ELSE value.kids[CHOOSE i \in idx : TRUE].v

OwnKeys(value) == [i \in 1..Len(value.kids) |-> value.kids[i].k]

\* The text JSON.stringify gives, or NoText where it gives undefined.
NoText == [def |-> FALSE, text |-> ""]
Text(s) == [def |-> TRUE, text |-> s]

RECURSIVE SerializeJSONProperty(_, _, _)
RECURSIVE SerializeMembers(_, _, _, _, _, _)
RECURSIVE SerializeElements(_, _, _, _)

\* The members of `value` named by K[i..], joined by commas: a member whose
\* value serializes to undefined is left out.
SerializeMembers(value, K, i, plist, hasPlist, first) ==
    IF i > Len(K) THEN ""
    ELSE LET strP == SerializeJSONProperty(GetMember(value, K[i]), plist, hasPlist)
         IN IF ~strP.def
            THEN SerializeMembers(value, K, i + 1, plist, hasPlist, first)
            ELSE (IF first THEN "" ELSE ",")
                 \o "\"" \o K[i] \o "\":" \o strP.text
                 \o SerializeMembers(value, K, i + 1, plist, hasPlist, FALSE)

\* The elements of an array from index i on: undefined is written null.
SerializeElements(value, i, plist, hasPlist) ==
    IF i > Len(value.kids) THEN ""
    ELSE LET strP == SerializeJSONProperty(value.kids[i].v, plist, hasPlist)
         IN (IF i = 1 THEN "" ELSE ",")
            \o (IF strP.def THEN strP.text ELSE "null")
            \o SerializeElements(value, i + 1, plist, hasPlist)

\* JSON.stringify's SerializeJSONProperty.  With a replacer array (hasPlist)
\* every object, at every depth, writes the keys of plist, in plist's order.
SerializeJSONProperty(value, plist, hasPlist) ==
    CASE value.t = "undefined" -> NoText
      [] value.t = "null" -> Text("null")
      [] value.t = "number" ->
            IF value.s \in {"NaN", "Infinity"} THEN Text("null") ELSE Text(value.s)
      [] value.t = "string" -> Text("\"" \o value.s \o "\"")
      [] value.t = "object" ->
            Text("{" \o SerializeMembers(value,
                                         IF hasPlist THEN plist ELSE OwnKeys(value),
                                         1, plist, hasPlist, TRUE) \o "}")
      [] value.t = "array" ->
            Text("[" \o SerializeElements(value, 1, plist, hasPlist) \o "]")

JSONStringify(value) == SerializeJSONProperty(value, <<>>, FALSE)
JSONStringifyWith(value, plist) == SerializeJSONProperty(value, plist, TRUE)

RECURSIVE JSONParseStringify(_)
RECURSIVE ParsedMembers(_, _)
RECURSIVE ParsedElements(_, _)

ParsedMembers(kids, i) ==
    IF i > Len(kids) THEN <<>>
    ELSE IF kids[i].v.t = "undefined"
         THEN ParsedMembers(kids, i + 1)
         ELSE <<Member(kids[i].k, JSONParseStringify(kids[i].v))>>
              \o ParsedMembers(kids, i + 1)

ParsedElements(kids, i) ==
    IF i > Len(kids) THEN <<>>
    ELSE <<Member(kids[i].k,
                  IF kids[i].v.t = "undefined" THEN Null
                  ELSE JSONParseStringify(kids[i].v))>>
         \o ParsedElements(kids, i + 1)

\* JSON.parse(JSON.stringify(value)) of a value other than undefined: what
\* node-persist hands back for a value it wrote to disk.
JSONParseStringify(value) ==
    CASE value.t = "number" ->
            IF value.s \in {"NaN", "Infinity"} THEN Null ELSE value
      [] value.t = "object" -> Obj(ParsedMembers(value.kids, 1))
      [] value.t = "array" -> ArrKids(ParsedElements(value.kids, 1))
      [] OTHER -> value

(***************************************************************************)
(* Cache keys: CacheManager.generateCacheKey.                              *)
(***************************************************************************)
\* The keys of the modelled objects, in the order Array.prototype.sort
\* gives them (UTF-16 code units).
SortedKeys == <<"0", "1", "2", "a", "b", "c", "documentation", "name">>

Range(seq) == {seq[i] : i \in 1..Len(seq)}

KeepInsertionOrder(keys) == keys

\* Object.keys(part).sort()
SortKeys(keys) ==
    LET IsKey(k) == k \in Range(keys)
    IN SelectSeq(SortedKeys, IsKey)

\* String(part) of a value that is no object.
ToStringJS(part) == part.s

\* The string one part is normalized to.
NormalizePart(part) ==
    IF part.t \in {"undefined", "null"} THEN "null"
    ELSE IF part.t \in {"object", "array"}
         THEN JSONStringifyWith(part, SortKeys(OwnKeys(part))).text
         ELSE ToStringJS(part)

RECURSIVE JoinParts(_, _)
\* parts.map(normalize).join(":"), from part i on.
JoinParts(parts, i) ==
    IF i > Len(parts) THEN ""
    ELSE (IF i = 1 THEN "" ELSE ":") \o NormalizePart(parts[i])
         \o JoinParts(parts, i + 1)

\* createHash("sha256").update(s).digest("hex"): a digest, taken to be free
\* of collisions.
Sha256Hex(s) == "sha256(" \o s \o ")"

GenerateCacheKeyOf(parts) == Sha256Hex(JoinParts(parts, 1))

\* Bound: the number of arguments of a call.
MaxParts == 2

\* The argument values: scalars, flat and nested objects in both insertion
\* orders of their keys, arrays of objects, two of them differing in a value
\* of the object.
KeyValues ==
    { Str("x"), Undefined,
      Obj(<<Member("a", Num("1")), Member("b", Num("2"))>>),
      Obj(<<Member("b", Num("2")), Member("a", Num("1"))>>),
      Obj(<<Member("a", Obj(<<Member("b", Num("1")), Member("a", Num("2"))>>)),
            Member("b", Num("1"))>>),
      Obj(<<Member("b", Num("1")),
            Member("a", Obj(<<Member("a", Num("2")), Member("b", Num("1"))>>))>>),
      Arr(<<Obj(<<Member("a", Num("1")), Member("b", Num("2"))>>)>>),
      Arr(<<Obj(<<Member("b", Num("2")), Member("a", Num("1"))>>)>>),
      Arr(<<Obj(<<Member("a", Num("3")), Member("b", Num("2"))>>)>>) }

KeyParts == UNION {[1..n -> KeyValues] : n \in 1..MaxParts}

NoKeyCall == [called |-> FALSE, parts |-> <<>>, key |-> ""]

KeyFrame == UNCHANGED <<cacheVars, scopeVars, complexityVars, smellsVars, analyzeVars, refsVars, patternsVars, summaryVars, fileVars, limitVars, searchVars, parsedVars, lruVars, contextVars, hierarchyVars>>

\* One call of generateCacheKey; two calls are compared.
GenerateCacheKey(parts) ==
    /\ ~keyPrev.called
    /\ keyPrev' = keyLast
    /\ keyLast' = [called |-> TRUE, parts |-> parts, key |-> GenerateCacheKeyOf(parts)]
    /\ KeyFrame

NextKey == \E parts \in KeyParts : GenerateCacheKey(parts)

RECURSIVE SortedMembers(_)
\* A value with the members of every object in it put in the order of their
\* keys: two values are equal up to the insertion order of object keys
\* exactly when this gives the same value for both.
SortedMembers(value) ==
    IF value.t = "object"
    THEN LET Has(k) == \E i \in 1..Len(value.kids) : value.kids[i].k = k
             K == SelectSeq(SortedKeys, Has)
         IN Obj([i \in 1..Len(K) |-> Member(K[i], SortedMembers(GetMember(value, K[i])))])
    ELSE IF value.t = "array"
    THEN ArrKids([i \in 1..Len(value.kids) |->
                    Member(value.kids[i].k, SortedMembers(value.kids[i].v))])
    ELSE value

EqualUpToKeyOrder(p, q) ==
    /\ Len(p) = Len(q)
    /\ \A i \in 1..Len(p) : SortedMembers(p[i]) = SortedMembers(q[i])

\* C4: two calls of generateCacheKey whose arguments are equal except for
\* the insertion order of object keys produce the same cache key.
CacheKeyOrderIndependent ==
    (keyPrev.called /\ keyLast.called /\ EqualUpToKeyOrder(keyPrev.parts, keyLast.parts))
    => keyPrev.key = keyLast.key

\* Two calls whose arguments differ in the order of the keys of a nested
\* object, and only in that.
CacheKeyOrderWitness ==
    /\ keyPrev.called /\ keyLast.called
    /\ keyPrev.parts # keyLast.parts
    /\ EqualUpToKeyOrder(keyPrev.parts, keyLast.parts)
    /\ \E i \in 1..Len(keyLast.parts) :
          /\ keyLast.parts[i].t = "object"
          /\ GetMember(keyLast.parts[i], "a").t = "object"
          /\ keyLast.parts[i] # keyPrev.parts[i]
    /\ keyPrev.key = keyLast.key

\* C28: two calls of generateCacheKey whose arguments differ in a value,
\* be it one nested in an object or array argument, produce different
\* cache keys.  (Violated: the sorted keys of the argument are the replacer
\* list at every depth, so the members of a nested object whose keys the
\* argument itself does not have are left out of the normalized string.)
CacheKeysOfDifferentArgumentsDiffer ==
    (keyPrev.called /\ keyLast.called /\ ~EqualUpToKeyOrder(keyPrev.parts, keyLast.parts))
    => keyPrev.key # keyLast.key

(***************************************************************************)
(* The persistent analysis cache.                                          *)
(***************************************************************************)
DefaultTtl == 3600000

\* Bound of the cache model: the steps the clock takes.
MaxTicks == 2

CacheKeys == {"k1", "k2"}

\* The analysis results stored: JSON data as the tools produce it, with the
\* members set to undefined that the tools leave in their results.
CacheData ==
    { Num("0"), Str("x"), Undefined,
      Obj(<<Member("name", Str("C")), Member("documentation", Undefined)>>),
      Obj(<<Member("name", Str("C")), Member("modifiers", Arr(<<Str("private")>>))>>),
      Arr(<<Num("1"), NaN>>) }

\* The ttl options a deployment may give: 0 stands for none given.
TtlOptions == {0, 1, DefaultTtl}

\* this.options.ttl
Ttl(opt) == IF opt = 0 THEN DefaultTtl ELSE opt

NoEntry == [present |-> FALSE, data |-> Undefined, timestamp |-> 0]
Entry(data, timestamp) == [present |-> TRUE, data |-> data, timestamp |-> timestamp]

\* storage.setItem then storage.getItem of the wrapper {data, timestamp}: a
\* data of undefined is not written, and reads back as undefined.
StoredEntry(data, timestamp) ==
    Entry(IF data.t = "undefined" THEN Undefined ELSE JSONParseStringify(data),
          timestamp)

DiskSet(store, key, data, timestamp) ==
    [store EXCEPT ![key] = StoredEntry(data, timestamp)]

DiskGet(store, key) == store[key]

DiskDelete(store, key) == [store EXCEPT ![key] = NoEntry]

DiskClear(store) == [k \in DOMAIN store |-> NoEntry]

TtlExpiredLax(cached, t, ttl) == t - cached.timestamp >= ttl

\* Date.now() - cached.timestamp > this.options.ttl
TtlExpired(cached, t, ttl) == t - cached.timestamp > ttl

\* What getCachedAnalysis returns: undefined for no entry and for an expired one.
GetResult(store, key, t, ttl) ==
    LET cached == DiskGet(store, key)
    IN IF ~cached.present THEN Undefined
       ELSE IF TtlExpired(cached, t, ttl) THEN Undefined
       ELSE cached.data

StoreAfterGetKeeping(store, key, t, ttl) == store

\* The storage getCachedAnalysis leaves: an expired entry is deleted.
StoreAfterGet(store, key, t, ttl) ==
    LET cached == DiskGet(store, key)
    IN IF cached.present /\ TtlExpired(cached, t, ttl)
       THEN DiskDelete(store, key)
       ELSE store

\* The cache's operations leave the other areas alone.
CacheFrame == UNCHANGED <<keyVars, scopeVars, complexityVars, smellsVars, analyzeVars, refsVars, patternsVars, summaryVars, fileVars, limitVars, searchVars, parsedVars, lruVars, contextVars, hierarchyVars>>

NoOp == [op |-> "none", key |-> "", at |-> 0, pre |-> NoEntry, result |-> Undefined]

EmptyStore == [k \in CacheKeys |-> NoEntry]

SetCachedAnalysis(key, data) ==
    /\ analysisStore' = DiskSet(analysisStore, key, data, now)
    /\ lastSet' = [lastSet EXCEPT ![key] = Entry(data, now)]
    /\ cacheOp' = [op |-> "set", key |-> key, at |-> now,
                   pre |-> analysisStore[key], result |-> Undefined]
    /\ UNCHANGED <<now, optionsTtl>>
    /\ CacheFrame

GetCachedAnalysis(key) ==
    /\ analysisStore' = StoreAfterGet(analysisStore, key, now, Ttl(optionsTtl))
    /\ cacheOp' = [op |-> "get", key |-> key, at |-> now,
                   pre |-> analysisStore[key],
                   result |-> GetResult(analysisStore, key, now, Ttl(optionsTtl))]
    /\ UNCHANGED <<now, optionsTtl, lastSet>>
    /\ CacheFrame

ClearAnalysisCache ==
    /\ analysisStore' = DiskClear(analysisStore)
    /\ lastSet' = EmptyStore
    /\ cacheOp' = [NoOp EXCEPT !.op = "clear", !.at = now]
    /\ UNCHANGED <<now, optionsTtl>>
    /\ CacheFrame

\* Time passes: by a millisecond or by the default time-to-live.
TickSteps == {1, DefaultTtl}
Ticks(t) == (t \div DefaultTtl) + (t % DefaultTtl)

Tick ==
    /\ Ticks(now) < MaxTicks
    /\ \E d \in TickSteps : now' = now + d
    /\ UNCHANGED <<analysisStore, optionsTtl, cacheOp, lastSet>>
    /\ CacheFrame

NextCache ==
    \/ \E k \in CacheKeys, d \in CacheData : SetCachedAnalysis(k, d)
    \/ \E k \in CacheKeys : GetCachedAnalysis(k)
    \/ ClearAnalysisCache
    \/ Tick

RECURSIVE IsJSONValue(_)
\* The value holds nothing JSON cannot write: no undefined, no NaN.
IsJSONValue(value) ==
    /\ value.t # "undefined"
    /\ value.t = "number" => value.s \notin {"NaN", "Infinity"}
    /\ \A i \in 1..Len(value.kids) : IsJSONValue(value.kids[i].v)

\* C2: a getCachedAnalysis(k) that follows setCachedAnalysis(k, d) with no
\* write, delete or clear of k in between, while the entry's age is within
\* the time-to-live, returns data identical to d: the same bytes when
\* serialized, and the same value when d is a JSON value.
CacheRoundTrip ==
    (/\ cacheOp.op = "get"
     /\ lastSet[cacheOp.key].present
     /\ cacheOp.at - lastSet[cacheOp.key].timestamp <= Ttl(optionsTtl))
    => /\ JSONStringify(cacheOp.result) = JSONStringify(lastSet[cacheOp.key].data)
       /\ IsJSONValue(lastSet[cacheOp.key].data)
             => cacheOp.result = lastSet[cacheOp.key].data

\* A read, at the very end of the time-to-live, of an entry holding an
\* object with an array in it.
CacheRoundTripWitness ==
    /\ cacheOp.op = "get"
    /\ lastSet[cacheOp.key].present
    /\ cacheOp.at - lastSet[cacheOp.key].timestamp = Ttl(optionsTtl)
    /\ lastSet[cacheOp.key].data.t = "object"
    /\ IsJSONValue(lastSet[cacheOp.key].data)
    /\ cacheOp.result = lastSet[cacheOp.key].data

\* C3: a getCachedAnalysis(k) that finds in storage an entry older than the
\* time-to-live returns absent and leaves no entry for k in storage.
ExpiredEntryAbsentAndRemoved ==
    (/\ cacheOp.op = "get"
     /\ cacheOp.pre.present
     /\ cacheOp.at - cacheOp.pre.timestamp > Ttl(optionsTtl))
    => (cacheOp.result = Undefined /\ ~analysisStore[cacheOp.key].present)

\* A read of an entry, present in storage, just past the time-to-live.
ExpiredEntryWitness ==
    /\ cacheOp.op = "get"
    /\ cacheOp.pre.present
    /\ cacheOp.pre.data # Undefined
    /\ cacheOp.at - cacheOp.pre.timestamp = Ttl(optionsTtl) + 1
    /\ cacheOp.result = Undefined
    /\ ~analysisStore[cacheOp.key].present

(***************************************************************************)
(* Path scope: validatePath and the tools that take a filePath.            *)
(* A path is [abs, segs]: whether it starts with "/", and its segments.    *)
(***************************************************************************)
\* process.cwd(), as segments below "/".
Cwd == <<"work">>

\* securityConfig.excludePatterns: each is "**/<name>/**".
ExcludePatterns == <<"node_modules", ".git", "dist", "build">>

\* Bound: the number of segments of a path given to a tool.
MaxSegs == 3

Segments == {"..", ".", "work", "src", "node_modules", ".git", ".cache", "a.ts", "..x"}

\* The segments whose text starts with "." and with "..".
DotNames == {".", "..", ".git", ".cache", "..x"}
DotDotNames == {"..", "..x"}

Paths == [abs : BOOLEAN, segs : UNION {[1..n -> Segments] : n \in 1..MaxSegs}]

RECURSIVE NormalizeSegs(_, _, _, _)
\* path.normalize (posix) over segs[i..]: "." is dropped, ".." takes back the
\* segment before it; a ".." with nothing to take back stays in a relative
\* path and is dropped at the root of an absolute one.
NormalizeSegs(segs, i, abs, out) ==
    IF i > Len(segs) THEN out
    ELSE IF segs[i] = "." THEN NormalizeSegs(segs, i + 1, abs, out)
    ELSE IF segs[i] = ".."
         THEN IF out # <<>> /\ out[Len(out)] # ".."
              THEN NormalizeSegs(segs, i + 1, abs, SubSeq(out, 1, Len(out) - 1))
              ELSE IF abs THEN NormalizeSegs(segs, i + 1, abs, out)
              ELSE NormalizeSegs(segs, i + 1, abs, Append(out, ".."))
    ELSE NormalizeSegs(segs, i + 1, abs, Append(out, segs[i]))

\* path.normalize(filePath): an empty relative result is ".".
Normalize(p) ==
    LET out == NormalizeSegs(p.segs, 1, p.abs, <<>>)
    IN [abs |-> p.abs, segs |-> IF out = <<>> /\ ~p.abs THEN <<".">> ELSE out]

\* path.resolve(p): the absolute path, a relative one taken from the cwd.
Resolve(p) ==
    IF p.abs THEN NormalizeSegs(p.segs, 1, TRUE, <<>>)
    ELSE NormalizeSegs(Cwd \o p.segs, 1, TRUE, <<>>)

RECURSIVE CommonPrefixLen(_, _, _)
CommonPrefixLen(a, b, n) ==
    IF n < Len(a) /\ n < Len(b) /\ a[n + 1] = b[n + 1]
    THEN CommonPrefixLen(a, b, n + 1)
    ELSE n

\* path.relative(from, to), both absolute: up from `from` to the common
\* ancestor, then down to `to`.
Relative(from, to) ==
    LET c == CommonPrefixLen(from, to, 0)
    IN [i \in 1..(Len(from) - c) |-> ".."] \o SubSeq(to, c + 1, Len(to))

\* relativePath.startsWith('..'), of the segments joined by "/".
StartsWithDotDot(rel) == rel # <<>> /\ rel[1] \in DotDotNames

\* The segments minimatch splits a path into: an absolute path has an empty
\* first segment.
MatchSegs(p) == IF p.abs THEN <<"">> \o p.segs ELSE p.segs

\* minimatch(path, "**/<name>/**") with the default options: some segment is
\* <name>, at least one segment follows it, and no other segment starts with
\* a dot ("**" does not match those).
Minimatch(p, name) ==
    LET f == MatchSegs(p)
    IN \E i \in 1..(Len(f) - 1) :
          /\ f[i] = name
          /\ \A j \in 1..Len(f) : j # i => f[j] \notin DotNames

\* validatePath: the error it throws, or "none".
ValidatePath(filePath) ==
    LET normalizedPath == Normalize(filePath)
        relativePath == Relative(Cwd, Resolve(normalizedPath))
    IN IF StartsWithDotDot(relativePath) THEN "SCOPE_ERROR"
       ELSE IF \E k \in 1..Len(ExcludePatterns) :
                    Minimatch(normalizedPath, ExcludePatterns[k])
            THEN "SCOPE_ERROR"
            ELSE "none"

NoPath == [abs |-> FALSE, segs |-> <<>>]
NoToolCall == [tool |-> "none", hasPath |-> FALSE, path |-> NoPath,
               outcome |-> "none", read |-> FALSE]

\* How a call ended: outcome is the error code thrown or "result"; read says
\* whether project.addSourceFileAtPath was called on the path.
Ended(tool, hasPath, filePath, outcome, read) ==
    [tool |-> tool, hasPath |-> hasPath, path |-> filePath,
     outcome |-> outcome, read |-> read]

\* validatePath(filePath) as a tool's first statement, then the read and
\* the analysis: readable says whether the read and the analysis succeed.
ValidateThenRead(tool, filePath, readable) ==
    IF ValidatePath(filePath) # "none"
    THEN Ended(tool, TRUE, filePath, ValidatePath(filePath), FALSE)
    ELSE Ended(tool, TRUE, filePath, IF readable THEN "result" ELSE "OTHER_ERROR", TRUE)

\* The body of detectCodeSmells' try block for one file: whatever
\* validatePath or the read throws is caught and logged, and the tool goes
\* on to return its result.
TryValidateThenRead(tool, filePath) ==
    Ended(tool, TRUE, filePath, "result", ValidatePath(filePath) = "none")

ScopeFrame == UNCHANGED <<cacheVars, keyVars, complexityVars, smellsVars, analyzeVars, refsVars, patternsVars, summaryVars, fileVars, limitVars, searchVars, parsedVars, lruVars, contextVars, hierarchyVars>>

\* The tools keep no state between calls: one call is followed from a
\* fresh server.  readable says whether the read and the analysis succeed.
AnalyzeFile ==
    /\ toolCall = NoToolCall
    /\ \E filePath \in Paths, readable \in BOOLEAN :
          toolCall' = ValidateThenRead("analyze_file", filePath, readable)
    /\ ScopeFrame

GetSymbolInfo ==
    /\ toolCall = NoToolCall
    /\ \E filePath \in Paths, readable \in BOOLEAN :
          toolCall' = ValidateThenRead("get_symbol_info", filePath, readable)
    /\ ScopeFrame

FindReferencesAt ==
    /\ toolCall = NoToolCall
    /\ \E filePath \in Paths, readable \in BOOLEAN :
          toolCall' = ValidateThenRead("find_references", filePath, readable)
    /\ ScopeFrame

\* With a filePath the one file, without one the files found under the cwd.
AnalyzeDependencies ==
    /\ toolCall = NoToolCall
    /\ \/ \E filePath \in Paths, readable \in BOOLEAN :
             toolCall' = ValidateThenRead("analyze_dependencies", filePath, readable)
       \/ toolCall' = Ended("analyze_dependencies", FALSE, NoPath, "result", FALSE)
    /\ ScopeFrame

DetectCodeSmellsIn ==
    /\ toolCall = NoToolCall
    /\ \/ \E filePath \in Paths :
             toolCall' = TryValidateThenRead("detect_code_smells", filePath)
       \/ toolCall' = Ended("detect_code_smells", FALSE, NoPath, "result", FALSE)
    /\ ScopeFrame

ExtractContext ==
    /\ toolCall = NoToolCall
    /\ \E filePath \in Paths, readable \in BOOLEAN :
          toolCall' = ValidateThenRead("extract_context", filePath, readable)
    /\ ScopeFrame

NextScope ==
    \/ AnalyzeFile
    \/ GetSymbolInfo
    \/ FindReferencesAt
    \/ AnalyzeDependencies
    \/ DetectCodeSmellsIn
    \/ ExtractContext

\* The path resolves to a place that is not the cwd or below it.
OutsideRoot(p) ==
    LET r == Resolve(p)
    IN ~(Len(r) >= Len(Cwd) /\ SubSeq(r, 1, Len(Cwd)) = Cwd)

MatchesExclusion(p) ==
    \E k \in 1..Len(ExcludePatterns) : Minimatch(Normalize(p), ExcludePatterns[k])

\* C1: a file-scoped tool given a path outside the working root, or one
\* matching an exclusion glob, fails with a ScopeError, and has not read the
\* path.  (Violated: detect_code_smells catches the error and returns.)
ScopedToolsReject ==
    (/\ toolCall.tool # "none"
     /\ toolCall.hasPath
     /\ (OutsideRoot(toolCall.path) \/ MatchesExclusion(toolCall.path)))
    => (toolCall.outcome = "SCOPE_ERROR" /\ ~toolCall.read)

(***************************************************************************)
(* Syntax trees.  A node is [kind, text, children]: its SyntaxKind, the    *)
(* text of an identifier or operator token (the name of a declaration),    *)
(* and its children in the order forEachChild visits them.                 *)
(***************************************************************************)
Node(kind, text, children) == [kind |-> kind, text |-> text, children |-> children]

Identifier(name) == Node("Identifier", name, <<>>)
Token(op) == Node("Token", op, <<>>)
Keyword(word) == Node("Keyword", word, <<>>)
BinaryExpression(left, op, right) ==
    Node("BinaryExpression", op, <<left, Token(op), right>>)
ConditionalExpression(cond, whenTrue, whenFalse) ==
    Node("ConditionalExpression", "", <<cond, Token("?"), whenTrue, Token(":"), whenFalse>>)
PropertyAccessExpression(expr, name) ==
    Node("PropertyAccessExpression", name, <<expr, Identifier(name)>>)
CallExpression(callee, args) == Node("CallExpression", "", <<callee>> \o args)
Block(statements) == Node("Block", "", statements)
ReturnStatement(expr) == Node("ReturnStatement", "", <<expr>>)
ExpressionStatement(expr) == Node("ExpressionStatement", "", <<expr>>)
IfStatement(cond, thenStatement) == Node("IfStatement", "", <<cond, thenStatement>>)
WhileStatement(cond, body) == Node("WhileStatement", "", <<cond, body>>)
DoStatement(body, cond) == Node("DoStatement", "", <<body, cond>>)
ForStatement(cond, body) == Node("ForStatement", "", <<cond, body>>)
ForInStatement(init, expr, body) == Node("ForInStatement", "", <<init, expr, body>>)
ForOfStatement(init, expr, body) == Node("ForOfStatement", "", <<init, expr, body>>)
CatchClause(block) == Node("CatchClause", "", <<block>>)
TryStatement(tryBlock, catchClause) == Node("TryStatement", "", <<tryBlock, catchClause>>)
CaseClause(expr, statements) == Node("CaseClause", "", <<expr>> \o statements)
DefaultClause(statements) == Node("DefaultClause", "", statements)
SwitchStatement(expr, clauses) ==
    Node("SwitchStatement", "", <<expr, Node("CaseBlock", "", clauses)>>)
FunctionDeclaration(name, statements) ==
    Node("FunctionDeclaration", name, <<Identifier(name), Block(statements)>>)

RECURSIVE Descendants(_)
RECURSIVE DescendantsOfAll(_, _)
\* node.forEachDescendant: the descendants of a node, depth first, each
\* before its own children.
Descendants(node) == DescendantsOfAll(node.children, 1)

DescendantsOfAll(children, i) ==
    IF i > Len(children) THEN <<>>
    ELSE <<children[i]>> \o Descendants(children[i])
         \o DescendantsOfAll(children, i + 1)

(***************************************************************************)
(* Complexity: getNodeComplexity.                                          *)
(***************************************************************************)
\* The kinds getNodeComplexity counts; BinaryExpression is counted whatever
\* its operator.
CountedKinds ==
    {"IfStatement", "ForStatement", "ForInStatement", "ForOfStatement",
     "WhileStatement", "DoStatement", "ConditionalExpression", "CatchClause",
     "CaseClause", "BinaryExpression"}

StartComplexity == 1

GetNodeComplexityOf(node) ==
    LET D == Descendants(node)
    IN StartComplexity + Cardinality({i \in 1..Len(D) : D[i].kind \in CountedKinds})

\* Bound: the number of statements of a function body.
MaxStatements == 2

A == Identifier("a")
B == Identifier("b")

Expressions ==
    { A,
      PropertyAccessExpression(Keyword("this"), "v"),
      BinaryExpression(A, "+", B),
      BinaryExpression(A, ">", B),
      BinaryExpression(A, "&&", B),
      ConditionalExpression(A, A, B) }

Conditions == {A, BinaryExpression(A, ">", B), BinaryExpression(A, "&&", B)}

EmptyBlock == Block(<<>>)

Statements ==
    {ReturnStatement(e) : e \in Expressions}
    \cup {IfStatement(c, EmptyBlock) : c \in Conditions}
    \cup { WhileStatement(A, EmptyBlock),
           DoStatement(EmptyBlock, A),
           ForStatement(A, EmptyBlock),
           ForInStatement(B, A, EmptyBlock),
           ForOfStatement(B, A, EmptyBlock),
           TryStatement(EmptyBlock, CatchClause(EmptyBlock)),
           SwitchStatement(A, <<CaseClause(B, <<>>), DefaultClause(<<>>)>>) }

Bodies == UNION {[1..n -> Statements] : n \in 0..MaxStatements}

\* The statements of a function declaration: those of its body block.
BodyOf(func) == func.children[Len(func.children)].children

\* A body with one `if` statement more: put in front of statement p, or
\* put around the whole body.
InsertIf(body, p, cond) ==
    SubSeq(body, 1, p) \o <<IfStatement(cond, EmptyBlock)>> \o SubSeq(body, p + 1, Len(body))
WrapInIf(body, cond) == <<IfStatement(cond, Block(body))>>

WithOneMoreIf(body) ==
    {InsertIf(body, p, c) : p \in 0..Len(body), c \in Conditions}
    \cup {WrapInIf(body, c) : c \in Conditions}

ComplexityCall(node, addedIf) ==
    [node |-> node, complexity |-> GetNodeComplexityOf(node), addedIf |-> addedIf]

ComplexityFrame == UNCHANGED <<cacheVars, keyVars, scopeVars, smellsVars, analyzeVars, refsVars, patternsVars, summaryVars, fileVars, limitVars, searchVars, parsedVars, lruVars, contextVars, hierarchyVars>>

\* getNodeComplexity of a function.
GetNodeComplexity ==
    /\ complexityCalls = <<>>
    /\ \E body \in Bodies :
          complexityCalls' = <<ComplexityCall(FunctionDeclaration("f", body), FALSE)>>
    /\ ComplexityFrame

\* getNodeComplexity of the same function after one `if` was added to it.
GetNodeComplexityWithIf ==
    /\ Len(complexityCalls) = 1
    /\ \E body \in WithOneMoreIf(BodyOf(complexityCalls[1].node)) :
          complexityCalls' = Append(complexityCalls,
                                    ComplexityCall(FunctionDeclaration("f", body), TRUE))
    /\ ComplexityFrame

NextComplexity == GetNodeComplexity \/ GetNodeComplexityWithIf

\* The constructs the complexity is documented to count: conditional
\* statements and expressions, loops, catch clauses, case clauses and
\* binary logical expressions.
BranchingKinds == CountedKinds \ {"BinaryExpression"}
LogicalOperators == {"&&", "||", "??"}

IsBranching(node) ==
    \/ node.kind \in BranchingKinds
    \/ node.kind = "BinaryExpression" /\ node.text \in LogicalOperators

ZeroBranching(node) ==
    LET D == Descendants(node)
    IN \A i \in 1..Len(D) : ~IsBranching(D[i])

\* C6: a function with zero branching constructs has complexity exactly 1,
\* and adding one `if` statement to a function raises its complexity by
\* exactly 1.  (Violated: every binary expression is counted, `a + b` and
\* the `a > b` of an added `if (a > b)` included.)
ComplexityCountsBranches ==
    /\ \A i \in 1..Len(complexityCalls) :
          ZeroBranching(complexityCalls[i].node) => complexityCalls[i].complexity = 1
    /\ (Len(complexityCalls) = 2 /\ complexityCalls[2].addedIf)
          => complexityCalls[2].complexity = complexityCalls[1].complexity + 1

(***************************************************************************)
(* Source files and the complexity detector: detectComplexitySmells.       *)
(***************************************************************************)
PropertyDeclaration(name, modifiers, initializer) ==
    Node("PropertyDeclaration", name, modifiers \o <<Identifier(name), initializer>>)
MethodDeclaration(name, modifiers, statements) ==
    Node("MethodDeclaration", name, modifiers \o <<Identifier(name), Block(statements)>>)
ClassDeclaration(name, members) ==
    Node("ClassDeclaration", name, <<Identifier(name)>> \o members)
SourceFile(statements) == Node("SourceFile", "", statements)
NumericLiteral(text) == Node("NumericLiteral", text, <<>>)
InterfaceDeclaration(name) == Node("InterfaceDeclaration", name, <<Identifier(name)>>)
VariableDeclaration(name, initializer) ==
    Node("VariableDeclaration", name, <<Identifier(name), initializer>>)
VariableStatement(declarations) ==
    Node("VariableStatement", "", <<Node("VariableDeclarationList", "", declarations)>>)
ImportDeclaration(moduleSpecifier, names) ==
    Node("ImportDeclaration", moduleSpecifier,
         [i \in 1..Len(names) |-> Identifier(names[i])])
Exported(decl) == Node(decl.kind, decl.text, <<Keyword("export")>> \o decl.children)
ArrowFunction(statements) == Node("ArrowFunction", "", <<Block(statements)>>)

OfKind(nodes, kind) ==
    LET Is(n) == n.kind = kind
    IN SelectSeq(nodes, Is)

\* sourceFile.getFunctions(), sourceFile.getClasses(), cls.getMethods(): the
\* declarations that are statements of the file, the methods that are
\* members of the class.
GetFunctions(sourceFile) == OfKind(sourceFile.children, "FunctionDeclaration")
GetClasses(sourceFile) == OfKind(sourceFile.children, "ClassDeclaration")
GetMethods(cls) == OfKind(cls.children, "MethodDeclaration")

\* Line numbers, for a file printed with one statement or member a line and
\* the braces of a function, method or class body on the lines of its head
\* and after its last statement.
RECURSIVE SumLines(_, _)
\* The lines after the first of a variable statement: those of the body of
\* the arrow function it declares, when it declares one.
ArrowLines(statement) ==
    LET arrows == OfKind(Descendants(statement), "ArrowFunction")
    IN IF arrows = <<>> THEN 0 ELSE Len(arrows[1].children[1].children) + 1
LineCount(node) ==
    CASE node.kind \in {"FunctionDeclaration", "MethodDeclaration"} ->
            Len(BodyOf(node)) + 2
      [] node.kind = "ClassDeclaration" -> SumLines(node.children, 2) + 2
      [] node.kind = "VariableStatement" -> ArrowLines(node) + 1
      [] OTHER -> 1
SumLines(nodes, i) ==
    IF i > Len(nodes) THEN 0 ELSE LineCount(nodes[i]) + SumLines(nodes, i + 1)

\* sourceFile.getEndLineNumber()
EndLineNumber(sourceFile) == SumLines(sourceFile.children, 1)
\* func.getEndLineNumber() - func.getStartLineNumber()
LineSpan(func) == LineCount(func) - 1

\* nodeToLocation of a statement of the file: its place among them.
LocationOf(sourceFile, node) ==
    CHOOSE i \in 1..Len(sourceFile.children) : sourceFile.children[i] = node
FileLocation == 0

DefaultComplexity == 10
DefaultFunctionSize == 50
DefaultFileSize == 300

\* An optional number of the threshold object.
NoValue == [def |-> FALSE, n |-> 0]
Given(n) == [def |-> TRUE, n |-> n]
\* t.x || d: undefined and 0 give the default.
OrDefault(opt, d) == IF opt.def /\ opt.n # 0 THEN opt.n ELSE d

Smell(severity, location, what, value) ==
    [type |-> "complexity", severity |-> severity, location |-> location,
     message |-> [what |-> what, value |-> value]]

ComplexitySeverityLax(complexity, complexityThreshold) ==
    IF complexity >= complexityThreshold * 2 THEN "high" ELSE "medium"

\* The severity of a finding about a function of this complexity.
ComplexitySeverity(complexity, complexityThreshold) ==
    IF complexity > complexityThreshold * 2 THEN "high" ELSE "medium"

FileSizeSmells(sourceFile, fileSizeThreshold) ==
    LET lines == EndLineNumber(sourceFile)
    IN IF lines > fileSizeThreshold
       THEN <<Smell(IF lines > fileSizeThreshold * 2 THEN "high" ELSE "medium",
                    FileLocation, "file lines", lines)>>
       ELSE <<>>

\* What the forEach over getFunctions() pushes for one function.
FunctionSmells(sourceFile, func, complexityThreshold, functionSizeThreshold) ==
    LET complexity == GetNodeComplexityOf(func)
        lines == LineSpan(func)
    IN (IF complexity > complexityThreshold
        THEN <<Smell(ComplexitySeverity(complexity, complexityThreshold),
                     LocationOf(sourceFile, func), "function complexity", complexity)>>
        ELSE <<>>)
       \o (IF lines > functionSizeThreshold
           THEN <<Smell(IF lines > functionSizeThreshold * 2 THEN "high" ELSE "medium",
                        LocationOf(sourceFile, func), "function lines", lines)>>
           ELSE <<>>)

RECURSIVE TotalComplexity(_, _)
\* methods.reduce((sum, method) => sum + getNodeComplexity(method), 0)
TotalComplexity(methods, i) ==
    IF i > Len(methods) THEN 0
    ELSE GetNodeComplexityOf(methods[i]) + TotalComplexity(methods, i + 1)

ClassSmells(sourceFile, cls, complexityThreshold) ==
    LET totalComplexity == TotalComplexity(GetMethods(cls), 1)
    IN IF totalComplexity > complexityThreshold * 3
       THEN <<Smell("high", LocationOf(sourceFile, cls), "class complexity", totalComplexity)>>
       ELSE <<>>

RECURSIVE AllFunctionSmells(_, _, _, _, _)
AllFunctionSmells(sourceFile, funcs, i, complexityThreshold, functionSizeThreshold) ==
    IF i > Len(funcs) THEN <<>>
    ELSE FunctionSmells(sourceFile, funcs[i], complexityThreshold, functionSizeThreshold)
         \o AllFunctionSmells(sourceFile, funcs, i + 1, complexityThreshold, functionSizeThreshold)

RECURSIVE AllClassSmells(_, _, _, _)
AllClassSmells(sourceFile, classes, i, complexityThreshold) ==
    IF i > Len(classes) THEN <<>>
    ELSE ClassSmells(sourceFile, classes[i], complexityThreshold)
         \o AllClassSmells(sourceFile, classes, i + 1, complexityThreshold)

\* The smells detectComplexitySmells pushes, in the order it pushes them.
DetectComplexitySmellsOf(sourceFile, threshold) ==
    LET complexityThreshold == OrDefault(threshold.complexity, DefaultComplexity)
        functionSizeThreshold == OrDefault(threshold.functionSize, DefaultFunctionSize)
        fileSizeThreshold == OrDefault(threshold.fileSize, DefaultFileSize)
    IN FileSizeSmells(sourceFile, fileSizeThreshold)
       \o AllFunctionSmells(sourceFile, GetFunctions(sourceFile), 1,
                            complexityThreshold, functionSizeThreshold)
       \o AllClassSmells(sourceFile, GetClasses(sourceFile), 1, complexityThreshold)

\* Bounds: the functions of a file, the `if` statements of a function, the
\* complexity threshold given.
MaxFunctions == 2
MaxIfs == 2
MaxThreshold == 2

\* Function bodies of 0..MaxIfs `if` statements, and those whose complexity
\* lies at the edges of the default threshold.
IfCounts ==
    (0..MaxIfs) \cup {DefaultComplexity, 2 * DefaultComplexity - 1, 2 * DefaultComplexity}
IfBody(n) == [i \in 1..n |-> IfStatement(A, EmptyBlock)]

FunctionNames == <<"f", "g", "h", "k">>
RECURSIVE NamedFunctions(_, _)
\* Functions f, g, ... with `if` counts counts[i..].
NamedFunctions(counts, i) ==
    IF i > Len(counts) THEN <<>>
    ELSE <<FunctionDeclaration(FunctionNames[i], IfBody(counts[i]))>>
         \o NamedFunctions(counts, i + 1)

\* No class, or a class C of a property and up to two methods.
ClassChoices ==
    { <<>>,
      <<ClassDeclaration("C", <<PropertyDeclaration("v", <<>>, A)>>)>>,
      <<ClassDeclaration("C", <<MethodDeclaration("m", <<>>, IfBody(2))>>)>>,
      <<ClassDeclaration("C", <<MethodDeclaration("m", <<>>, IfBody(2)),
                                MethodDeclaration("n", <<>>, IfBody(1))>>)>> }

\* No arrow function, or const w = () => { if (a) {} }.
ArrowChoices ==
    {<<>>, <<VariableStatement(<<VariableDeclaration("w", ArrowFunction(IfBody(1)))>>)>>}

SmellFiles ==
    { SourceFile(NamedFunctions(counts, 1) \o arrows \o classes) :
        counts \in UNION {[1..n -> IfCounts] : n \in 0..MaxFunctions},
        arrows \in ArrowChoices,
        classes \in ClassChoices }

ThresholdNumbers == {NoValue} \cup {Given(n) : n \in (-1)..MaxThreshold}
SizeNumbers == {NoValue, Given(1)}
Thresholds ==
    [complexity : ThresholdNumbers, fileSize : SizeNumbers, functionSize : SizeNumbers]

\* severityOrder of the sort detectCodeSmells ends with.
SeverityOrder(severity) ==
    CASE severity = "high" -> 0
      [] severity = "medium" -> 1
      [] OTHER -> 2

\* smells.sort((a, b) => severityOrder[a.severity] - severityOrder[b.severity]):
\* by severity, those of one severity in the order they had (the sort of an
\* array is stable).
SortBySeverity(smells) ==
    LET Of(n) == LET Is(s) == SeverityOrder(s.severity) = n
                 IN SelectSeq(smells, Is)
    IN Of(0) \o Of(1) \o Of(2)

\* What detectCodeSmells returns of the smells pushed, the category being
\* complexity.
SmellsResult(smells) ==
    LET sorted == SortBySeverity(smells)
    IN [smells |-> sorted,
        summary |-> [total |-> Len(sorted),
                     byCategory |-> [complexity |-> Len(sorted)],
                     bySeverity |-> [s \in {"high", "medium", "low"} |->
                                       Len(SelectSeq(sorted, LAMBDA x : x.severity = s))]]]

NoSmellsCall ==
    [called |-> FALSE, sourceFile |-> SourceFile(<<>>),
     threshold |-> [complexity |-> NoValue, fileSize |-> NoValue, functionSize |-> NoValue],
     smells |-> <<>>, returned |-> SmellsResult(<<>>)]

SmellsFrame == UNCHANGED <<cacheVars, keyVars, scopeVars, complexityVars, analyzeVars, refsVars, patternsVars, summaryVars, fileVars, limitVars, searchVars, parsedVars, lruVars, contextVars, hierarchyVars>>

\* detectCodeSmells on one file in scope with categories [complexity]:
\* detectComplexitySmells(sourceFile, smells, threshold), smells empty, and
\* the result returned of the smells it pushed.
DetectComplexitySmells ==
    /\ ~smellsCall.called
    /\ \E sourceFile \in SmellFiles, threshold \in Thresholds :
          LET smells == DetectComplexitySmellsOf(sourceFile, threshold)
          IN smellsCall' = [called |-> TRUE, sourceFile |-> sourceFile,
                            threshold |-> threshold,
                            smells |-> smells,
                            returned |-> SmellsResult(smells)]
    /\ SmellsFrame

NextSmells == DetectComplexitySmells

\* The findings about the complexity of the function at a location.
FunctionFindings(location) ==
    LET About(s) == s.message.what = "function complexity" /\ s.location = location
    IN SelectSeq(smellsCall.smells, About)

\* The complexity threshold in force: the one given, 10 when none or 0 is.
ThresholdInForce == OrDefault(smellsCall.threshold.complexity, DefaultComplexity)

FunctionsChecked == GetFunctions(smellsCall.sourceFile)

\* C5, as amended: a function of the file gets a finding exactly when its
\* complexity is above the threshold in force; the finding is `medium` up
\* to and including twice the threshold, and `high` above that.
ComplexitySeverityClassified ==
    smellsCall.called =>
        \A i \in 1..Len(FunctionsChecked) :
            LET func == FunctionsChecked[i]
                c == GetNodeComplexityOf(func)
                found == FunctionFindings(LocationOf(smellsCall.sourceFile, func))
            IN /\ c <= ThresholdInForce => found = <<>>
               /\ c > ThresholdInForce => Len(found) = 1
               /\ (c > ThresholdInForce /\ c <= 2 * ThresholdInForce)
                     => found[1].severity = "medium"
               /\ (c > ThresholdInForce /\ c > 2 * ThresholdInForce)
                     => found[1].severity = "high"

\* A function whose complexity is exactly twice the given threshold, found
\* `medium`.
ComplexitySeverityWitness ==
    /\ smellsCall.called
    /\ smellsCall.threshold.complexity.def
    /\ \E i \in 1..Len(FunctionsChecked) :
          LET func == FunctionsChecked[i]
              found == FunctionFindings(LocationOf(smellsCall.sourceFile, func))
          IN /\ GetNodeComplexityOf(func) = 2 * smellsCall.threshold.complexity.n
             /\ Len(found) = 1
             /\ found[1].severity = "medium"

\* C5, as stated: exactly twice the threshold is `high`, strictly between
\* the threshold and twice the threshold is `medium`, at or below the
\* threshold there is no finding.
SeverityHighAtTwiceThreshold ==
    smellsCall.called =>
        \A i \in 1..Len(FunctionsChecked) :
            LET func == FunctionsChecked[i]
                c == GetNodeComplexityOf(func)
                found == FunctionFindings(LocationOf(smellsCall.sourceFile, func))
            IN /\ c <= ThresholdInForce => found = <<>>
               /\ (c > ThresholdInForce /\ c < 2 * ThresholdInForce)
                     => (Len(found) = 1 /\ found[1].severity = "medium")
               /\ c = 2 * ThresholdInForce
                     => (Len(found) = 1 /\ found[1].severity = "high")

\* The kinds of node getSymbolKind calls a function.
FunctionKinds == {"FunctionDeclaration", "FunctionExpression", "ArrowFunction"}

\* The functions of the file, wherever they are declared.
FunctionsOf(sourceFile) ==
    LET IsFunction(n) == n.kind \in FunctionKinds
    IN SelectSeq(Descendants(sourceFile), IsFunction)

\* C12: with threshold {complexity: 1} and the category complexity, a file
\* that has a function of complexity 2 or more gets at least one finding of
\* severity medium or high.  (Violated: only the function declarations that
\* are statements of the file are measured, an arrow function is not.)
NonTrivialFunctionFound ==
    (/\ smellsCall.called
     /\ smellsCall.threshold.complexity = Given(1)
     /\ \E i \in 1..Len(FunctionsOf(smellsCall.sourceFile)) :
           GetNodeComplexityOf(FunctionsOf(smellsCall.sourceFile)[i]) >= 2)
    => \E k \in 1..Len(smellsCall.returned.smells) :
          smellsCall.returned.smells[k].severity \in {"medium", "high"}

(***************************************************************************)
(* File analysis: analyzeSourceFile and the summary analyzeFile makes.     *)
(***************************************************************************)
DeclarationKinds ==
    {"ClassDeclaration", "InterfaceDeclaration", "FunctionDeclaration",
     "VariableDeclaration", "TypeAliasDeclaration", "EnumDeclaration",
     "MethodDeclaration", "PropertyDeclaration", "GetAccessor", "SetAccessor"}

IsDeclarationNode(node) == node.kind \in DeclarationKinds

\* getSymbolKind
GetSymbolKind(node) ==
    CASE node.kind = "ClassDeclaration" -> "class"
      [] node.kind = "InterfaceDeclaration" -> "interface"
      [] node.kind = "EnumDeclaration" -> "enum"
      [] node.kind \in FunctionKinds -> "function"
      [] node.kind = "MethodDeclaration" -> "method"
      [] node.kind = "PropertyDeclaration" -> "property"
      [] node.kind = "TypeAliasDeclaration" -> "type"
      [] OTHER -> "variable"

\* node.hasModifier(keyword)
HasModifier(node, word) ==
    \E i \in 1..Len(node.children) : node.children[i] = Keyword(word)

\* The modifiers extractSymbolInfo lists, in the order it tests them.
ListedModifiers ==
    <<"public", "private", "protected", "static", "async", "readonly", "abstract">>

\* The names starting with "_".
UnderscoreNames == {"_v", "_m", "_g", "_x"}

NoSymbolInfo == [def |-> FALSE, name |-> "", kind |-> "", modifiers |-> <<>>]

\* The kinds of node that have a symbol: the declarations and the
\* identifiers, whose symbol has the name they give.
SymbolKinds == DeclarationKinds \cup {"Identifier"}

\* node.getSymbol() is defined.
HasSymbol(node) == node.kind \in SymbolKinds

SkipsPrivateModifier(node, includePrivate) ==
    ~includePrivate /\ HasModifier(node, "private")

\* name.startsWith("_") of a symbol left out unless includePrivate.
SkipsUnderscore(node, includePrivate) ==
    ~includePrivate /\ node.text \in UnderscoreNames

\* extractSymbolInfo: null for a node without symbol, and for a name
\* starting with "_" unless includePrivate.
ExtractSymbolInfo(node, includePrivate) ==
    IF ~HasSymbol(node) THEN NoSymbolInfo
    ELSE IF SkipsUnderscore(node, includePrivate) THEN NoSymbolInfo
    ELSE LET Has(word) == HasModifier(node, word)
         IN [def |-> TRUE, name |-> node.text, kind |-> GetSymbolKind(node),
             modifiers |-> SelectSeq(ListedModifiers, Has)]

RECURSIVE SymbolsOf(_, _, _)
\* The symbols pushed while forEachDescendant walks nodes[i..].
SymbolsOf(nodes, i, includePrivate) ==
    IF i > Len(nodes) THEN <<>>
    ELSE LET info == IF IsDeclarationNode(nodes[i])
                     THEN ExtractSymbolInfo(nodes[i], includePrivate)
                     ELSE NoSymbolInfo
         IN (IF info.def THEN <<info>> ELSE <<>>)
            \o SymbolsOf(nodes, i + 1, includePrivate)

RECURSIVE ImportsOf(_, _)
\* The imports pushed: those declarations that name something imported.
ImportsOf(importDecls, i) ==
    IF i > Len(importDecls) THEN <<>>
    ELSE (IF Len(importDecls[i].children) > 0
          THEN <<[moduleSpecifier |-> importDecls[i].text,
                  symbols |-> [k \in 1..Len(importDecls[i].children) |->
                                 importDecls[i].children[k].text]]>>
          ELSE <<>>)
         \o ImportsOf(importDecls, i + 1)

\* The names getExportedDeclarations gives: the statements declared with
\* `export`.
ExportsOf(sourceFile) ==
    LET IsExported(n) == HasModifier(n, "export")
        E == SelectSeq(sourceFile.children, IsExported)
    IN [i \in 1..Len(E) |-> E[i].text]

RECURSIVE ClassesComplexity(_, _)
\* The sum, over classes[i..], of getNodeComplexity of each method.
ClassesComplexity(classes, i) ==
    IF i > Len(classes) THEN 0
    ELSE TotalComplexity(GetMethods(classes[i]), 1) + ClassesComplexity(classes, i + 1)

FileComplexityWithClasses(sourceFile) ==
    TotalComplexity(GetFunctions(sourceFile), 1)
    + ClassesComplexity(GetClasses(sourceFile), 1)
    + Len(GetClasses(sourceFile))

\* totalComplexity: getNodeComplexity summed over the functions of the file
\* and the methods of its classes.
FileComplexity(sourceFile) ==
    TotalComplexity(GetFunctions(sourceFile), 1)
    + ClassesComplexity(GetClasses(sourceFile), 1)

AnalysisTypes == {"symbols", "dependencies", "complexity", "all"}

AnalyzeSourceFileOf(sourceFile, analysisType, includePrivate) ==
    [symbols |-> IF analysisType \in {"symbols", "all"}
                 THEN SymbolsOf(Descendants(sourceFile), 1, includePrivate)
                 ELSE <<>>,
     imports |-> IF analysisType \in {"dependencies", "all"}
                 THEN ImportsOf(OfKind(sourceFile.children, "ImportDeclaration"), 1)
                 ELSE <<>>,
     exports |-> IF analysisType \in {"dependencies", "all"}
                 THEN ExportsOf(sourceFile)
                 ELSE <<>>,
     complexity |-> IF analysisType \in {"complexity", "all"}
                    THEN FileComplexity(sourceFile)
                    ELSE 0]

\* The summary analyzeFile makes of the result.
SummaryOf(result) ==
    [totalSymbols |-> Len(result.symbols),
     complexity |-> result.complexity,
     dependencies |-> [i \in 1..Len(result.imports) |-> result.imports[i].moduleSpecifier]]

ThisV == PropertyAccessExpression(Keyword("this"), "v")

\* The files analysed: an import or none, a variable or none, a function or
\* none, and a class or none of at most one property and one method.
ImportChoices ==
    {<<>>, <<ImportDeclaration("./x", <<"a">>)>>, <<ImportDeclaration("./y", <<>>)>>}
VariableChoices ==
    {<<>>} \cup {<<VariableStatement(<<VariableDeclaration(n, A)>>)>> : n \in {"x", "_x"}}
FunctionChoices ==
    { <<>>,
      <<FunctionDeclaration("f", <<IfStatement(A, EmptyBlock)>>)>>,
      <<Exported(FunctionDeclaration("_g", <<>>))>> }
PropertyChoices ==
    {<<>>} \cup { <<PropertyDeclaration(n, mods, NumericLiteral("0"))>> :
                    n \in {"v", "_v"}, mods \in {<<>>, <<Keyword("private")>>} }
MethodBodies ==
    { <<ReturnStatement(ThisV)>>,
      <<ReturnStatement(BinaryExpression(A, "+", B))>>,
      <<IfStatement(A, EmptyBlock), ReturnStatement(ThisV)>> }
MethodChoices ==
    {<<>>} \cup { <<MethodDeclaration(n, <<>>, body)>> :
                    n \in {"m", "_m"}, body \in MethodBodies }
ClassesAnalysed ==
    {<<>>} \cup { <<ClassDeclaration("C", p \o mth)>> :
                    p \in PropertyChoices, mth \in MethodChoices }

AnalyzedFiles ==
    { SourceFile(i \o v \o f \o c) :
        i \in ImportChoices, v \in VariableChoices,
        f \in FunctionChoices, c \in ClassesAnalysed }

NoAnalyzeCall ==
    [called |-> FALSE, sourceFile |-> SourceFile(<<>>), analysisType |-> "all",
     includePrivate |-> FALSE,
     result |-> [symbols |-> <<>>, imports |-> <<>>, exports |-> <<>>, complexity |-> 0],
     summary |-> [totalSymbols |-> 0, complexity |-> 0, dependencies |-> <<>>]]

AnalyzeFrame == UNCHANGED <<cacheVars, keyVars, scopeVars, complexityVars, smellsVars, refsVars, patternsVars, summaryVars, fileVars, limitVars, searchVars, parsedVars, lruVars, contextVars, hierarchyVars>>

\* analyzeSourceFile(sourceFile, analysisType, depth, includePrivate), and
\* the summary of its result.
AnalyzeSourceFile ==
    /\ ~analyzeCall.called
    /\ ~extractCall.called
    /\ \E sourceFile \in AnalyzedFiles, analysisType \in AnalysisTypes,
          includePrivate \in BOOLEAN :
          LET result == AnalyzeSourceFileOf(sourceFile, analysisType, includePrivate)
          IN analyzeCall' = [called |-> TRUE, sourceFile |-> sourceFile,
                             analysisType |-> analysisType,
                             includePrivate |-> includePrivate,
                             result |-> result, summary |-> SummaryOf(result)]
    /\ UNCHANGED extractCall
    /\ AnalyzeFrame

NoExtractCall == [called |-> FALSE, node |-> SourceFile(<<>>), includePrivate |-> FALSE,
                  result |-> NoSymbolInfo]

\* The nodes of a file, the file itself first.
NodesOf(sourceFile) == <<sourceFile>> \o Descendants(sourceFile)

\* extractSymbolInfo(node, includePrivate) on a node of a file.
ExtractSymbolInfoAt ==
    /\ ~analyzeCall.called
    /\ ~extractCall.called
    /\ \E sourceFile \in AnalyzedFiles, includePrivate \in BOOLEAN :
          \E i \in 1..Len(NodesOf(sourceFile)) :
             LET node == NodesOf(sourceFile)[i]
             IN extractCall' = [called |-> TRUE, node |-> node,
                                includePrivate |-> includePrivate,
                                result |-> ExtractSymbolInfo(node, includePrivate)]
    /\ UNCHANGED analyzeCall
    /\ AnalyzeFrame

NextAnalyze == AnalyzeSourceFile \/ ExtractSymbolInfoAt

\* The name starts with "_".
StartsWithUnderscore(name) == name \in UnderscoreNames

\* C11: with includePrivate=false extractSymbolInfo never returns a record
\* whose name starts with "_", whatever the node; with includePrivate=true a
\* node whose symbol has such a name yields a record, of that name.
UnderscoreRecordsOnlyWhenAsked ==
    extractCall.called =>
        /\ (~extractCall.includePrivate /\ extractCall.result.def)
              => ~StartsWithUnderscore(extractCall.result.name)
        /\ (/\ extractCall.includePrivate
            /\ HasSymbol(extractCall.node)
            /\ StartsWithUnderscore(extractCall.node.text))
              => /\ extractCall.result.def
                 /\ extractCall.result.name = extractCall.node.text

\* A method named _m with includePrivate=true: a record named _m.
UnderscoreRecordWitness ==
    /\ extractCall.called
    /\ extractCall.includePrivate
    /\ extractCall.node.kind = "MethodDeclaration"
    /\ extractCall.result.def
    /\ extractCall.result.name = "_m"

\* The file is one class and nothing else, the class one property and one
\* method.
OneClassFile(sourceFile) ==
    /\ Len(sourceFile.children) = 1
    /\ sourceFile.children[1].kind = "ClassDeclaration"
    /\ Len(OfKind(sourceFile.children[1].children, "PropertyDeclaration")) = 1
    /\ Len(GetMethods(sourceFile.children[1])) = 1

PropertyOf(sourceFile) == OfKind(sourceFile.children[1].children, "PropertyDeclaration")[1]
MethodOf(sourceFile) == GetMethods(sourceFile.children[1])[1]

\* class C { private v = 0; m() { return this.v; } }
ScenarioFile ==
    SourceFile(<<ClassDeclaration("C",
        <<PropertyDeclaration("v", <<Keyword("private")>>, NumericLiteral("0")),
          MethodDeclaration("m", <<>>, <<ReturnStatement(ThisV)>>)>>)>>)

\* C9: analysisType=all with the default includePrivate, on a file of one
\* class with one property declared `private` and one method, reports
\* exactly 2 symbols, the class and the method.  (Violated: only a name
\* starting with "_" is left out, the `private` modifier is not looked at.)
PrivatePropertyExcluded ==
    (/\ analyzeCall.called
     /\ analyzeCall.analysisType = "all"
     /\ ~analyzeCall.includePrivate
     /\ OneClassFile(analyzeCall.sourceFile)
     /\ HasModifier(PropertyOf(analyzeCall.sourceFile), "private"))
    => /\ analyzeCall.summary.totalSymbols = 2
       /\ [i \in 1..2 |-> analyzeCall.result.symbols[i].kind] = <<"class", "method">>

\* The node or a descendant of it is one getNodeComplexity counts.
NothingCounted(node) ==
    LET D == Descendants(node)
    IN \A i \in 1..Len(D) : D[i].kind \notin CountedKinds

\* C10, as amended: on a file of one class with one method the complexity
\* reported is that of the method alone, the class adds nothing; it is
\* exactly 1 when the method has none of the counted constructs.
ClassComplexityIsMethods ==
    (/\ analyzeCall.called
     /\ analyzeCall.analysisType = "all"
     /\ OneClassFile(analyzeCall.sourceFile))
    => /\ analyzeCall.summary.complexity
            = GetNodeComplexityOf(MethodOf(analyzeCall.sourceFile))
       /\ NothingCounted(MethodOf(analyzeCall.sourceFile))
            => analyzeCall.summary.complexity = 1

\* The scenario file analysed: complexity 1.
ClassComplexityWitness ==
    /\ analyzeCall.called
    /\ analyzeCall.analysisType = "all"
    /\ analyzeCall.sourceFile = ScenarioFile
    /\ analyzeCall.summary.complexity = 1

\* C10, as stated: a file of one class with one branch-free method has a
\* complexity of at least 2.
ClassAndMethodContribute ==
    (/\ analyzeCall.called
     /\ analyzeCall.analysisType = "all"
     /\ OneClassFile(analyzeCall.sourceFile)
     /\ ZeroBranching(MethodOf(analyzeCall.sourceFile)))
    => analyzeCall.summary.complexity >= 2

(***************************************************************************)
(* References: findReferences.                                             *)
(***************************************************************************)
RECURSIVE Walk(_, _)
RECURSIVE WalkAll(_, _, _)
\* The nodes of a tree with their parents, in the order of the text.
Walk(node, parent) ==
    <<[node |-> node, parent |-> parent]>> \o WalkAll(node.children, 1, node)
WalkAll(children, i, parent) ==
    IF i > Len(children) THEN <<>>
    ELSE Walk(children[i], parent) \o WalkAll(children, i + 1, parent)

NoNode == Node("", "", <<>>)

\* getReferenceKind
GetReferenceKind(node, parent) ==
    IF parent.kind = "CallExpression" THEN "call"
    ELSE IF parent.kind = "ImportSpecifier" THEN "import"
    ELSE IF parent.kind = "BinaryExpression" /\ parent.children[2] = Token("=")
         THEN "write"
         ELSE "read"

SliceAll(array, end) == array

\* array.slice(0, end): a negative end counts from the end of the array.
Slice(array, end) ==
    LET len == Len(array)
        final == IF end < 0
                 THEN (IF len + end > 0 THEN len + end ELSE 0)
                 ELSE (IF end < len THEN end ELSE len)
    IN SubSeq(array, 1, final)

DefaultMaxResults == 100

\* Bound: the statements that use the variable.
MaxUses == 3

X == Identifier("x")

\* const x = 0
DeclarationOfX == VariableStatement(<<VariableDeclaration("x", NumericLiteral("0"))>>)

\* x;  x = 0;  x();  x + x;  a;  a = x;
UseStatements ==
    { ExpressionStatement(X),
      ExpressionStatement(BinaryExpression(X, "=", NumericLiteral("0"))),
      ExpressionStatement(CallExpression(X, <<>>)),
      ExpressionStatement(BinaryExpression(X, "+", X)),
      ExpressionStatement(A),
      ExpressionStatement(BinaryExpression(A, "=", X)) }

\* Self-contained files: the declaration of x, then statements using it.
ReferenceFiles ==
    { SourceFile(<<DeclarationOfX>> \o uses) :
        uses \in UNION {[1..n -> UseStatements] : n \in 0..MaxUses} }

MaxResultsValues == {-1, 0, 1, 2, 3, DefaultMaxResults}

\* The places of a file: the nodes of its tree, by their number in the
\* order of the text; 0 is a position where there is no node.
NoPlace == 0
Places(sourceFile) ==
    LET W == Walk(sourceFile, NoNode)
    IN {NoPlace} \cup {i \in 1..Len(W) : W[i].node.children = <<>>}

\* The names that are declared in the file, and so have a symbol.
DeclaredNames(sourceFile) ==
    LET W == Walk(sourceFile, NoNode)
    IN {W[i].node.text : i \in {j \in 1..Len(W) : IsDeclarationNode(W[j].node)}}

\* identifier.findReferences(): every occurrence of the name in the file,
\* the one in its declaration included, in the order of the text.
ReferenceEntries(sourceFile, identifier) ==
    LET W == Walk(sourceFile, NoNode)
        Occurs(i) == W[i].node = identifier
    IN SelectSeq([i \in 1..Len(W) |-> i], Occurs)

\* The entries of the references found in the other files of the project.
OtherFileEntry == [location |-> [file |-> "other", place |-> 1],
                   kind |-> "read"]

\* The references pushed, before they are cut to maxResults.
ReferencesPushed(sourceFile, identifier, otherFiles) ==
    LET W == Walk(sourceFile, NoNode)
        E == ReferenceEntries(sourceFile, identifier)
    IN [k \in 1..Len(E) |->
          [location |-> [file |-> "file", place |-> E[k]],
           kind |-> GetReferenceKind(W[E[k]].node, W[E[k]].parent)]]
       \o [k \in 1..otherFiles |-> OtherFileEntry]

NoRefsCall ==
    [called |-> FALSE, sourceFile |-> SourceFile(<<>>), place |-> NoPlace,
     includeDeclaration |-> FALSE, scope |-> "project",
     maxResults |-> DefaultMaxResults, outcome |-> "none",
     references |-> <<>>, totalReferences |-> 0]

RefsCall(sourceFile, place, includeDeclaration, scope, maxResults, outcome, references) ==
    [called |-> TRUE, sourceFile |-> sourceFile, place |-> place,
     includeDeclaration |-> includeDeclaration, scope |-> scope,
     maxResults |-> maxResults, outcome |-> outcome,
     references |-> Slice(references, maxResults),
     totalReferences |-> Len(references)]

\* findReferences on a file in scope: the node at the position, its
\* symbol, the references of its identifier.  otherFiles is the number of
\* references the other project files hold; with scope "file" they are not
\* loaded.
FindReferencesOf(sourceFile, place, includeDeclaration, scope, maxResults, otherFiles) ==
    LET W == Walk(sourceFile, NoNode)
        node == IF place = NoPlace THEN NoNode ELSE W[place].node
    IN IF place = NoPlace
       THEN RefsCall(sourceFile, place, includeDeclaration, scope, maxResults,
                     "FILE_NOT_FOUND", <<>>)
       ELSE IF ~(node.kind = "Identifier" /\ node.text \in DeclaredNames(sourceFile))
       THEN RefsCall(sourceFile, place, includeDeclaration, scope, maxResults,
                     "PARSE_ERROR", <<>>)
       ELSE RefsCall(sourceFile, place, includeDeclaration, scope, maxResults, "result",
                     ReferencesPushed(sourceFile, node,
                                      IF scope = "file" THEN 0 ELSE otherFiles))

RefsFrame ==
    UNCHANGED <<cacheVars, keyVars, scopeVars, complexityVars, smellsVars, analyzeVars, patternsVars, summaryVars, fileVars, limitVars, searchVars, parsedVars, lruVars, contextVars, hierarchyVars>>

FindReferences ==
    /\ ~refsCall.called
    /\ \E sourceFile \in ReferenceFiles, includeDeclaration \in BOOLEAN,
          scope \in {"file", "project"}, maxResults \in MaxResultsValues,
          otherFiles \in {0, 1} :
          \E place \in Places(sourceFile) :
             refsCall' = FindReferencesOf(sourceFile, place, includeDeclaration,
                                          scope, maxResults, otherFiles)
    /\ RefsFrame

NextRefs == FindReferences

\* N: the occurrences of x in the file, the one in its declaration
\* included.
Occurrences(sourceFile) ==
    LET W == Walk(sourceFile, NoNode)
    IN Cardinality({i \in 1..Len(W) : W[i].node = X})

\* The place of the x of `const x = 0`.
DeclarationPlace(sourceFile) ==
    LET W == Walk(sourceFile, NoNode)
    IN CHOOSE i \in 1..Len(W) :
          W[i].node = X /\ W[i].parent.kind = "VariableDeclaration"

Smaller(m, n) == IF m < n THEN m ELSE n

DeclarationOnlyWhenAsked ==
    (/\ refsCall.called
     /\ refsCall.outcome = "result"
     /\ \E k \in 1..Len(refsCall.references) :
           /\ refsCall.references[k].location.file = "file"
           /\ refsCall.references[k].location.place
                 = DeclarationPlace(refsCall.sourceFile))
    => refsCall.includeDeclaration

\* The kind of an occurrence as specified: call under a call expression,
\* import under an import specifier, write as the left operand of an
\* assignment, read otherwise.
SpecifiedKind(node, parent) ==
    IF parent.kind = "CallExpression" THEN "call"
    ELSE IF parent.kind = "ImportSpecifier" THEN "import"
    ELSE IF /\ parent.kind = "BinaryExpression"
            /\ parent.children[2] = Token("=")
            /\ parent.children[1] = node
            /\ parent.children[3] # node
         THEN "write"
         ELSE "read"

\* C25: each occurrence returned is classified call, import, write or read
\* by its parent, write only for the left operand of an assignment; the
\* right operand of an assignment is read.  (Violated: the operand's side
\* is not looked at, so the x of `a = x` is write.)
OccurrencesClassifiedByParent ==
    (refsCall.called /\ refsCall.outcome = "result")
    => LET W == Walk(refsCall.sourceFile, NoNode)
       IN  \A k \in 1..Len(refsCall.references) :
              LET entry == refsCall.references[k]
              IN  entry.location.file = "file"
                  => entry.kind = SpecifiedKind(W[entry.location.place].node,
                                                W[entry.location.place].parent)

(***************************************************************************)
(* Pattern search: findPatterns.  A file is [readable, places]: whether    *)
(* addSourceFileAtPath can read it, and for the places of the file, in the *)
(* order of the text, whether the place matches the pattern (the nodes the *)
(* walk visits; the regular expression finds the matching places only).    *)
(***************************************************************************)
\* Bounds: the files scanned, the places of a file, the maxResults given.
MaxPatternFiles == 2
MaxPlaces == 2
MaxCap == 2

PatternTypes == {"regex", "ast", "semantic"}
PatternFiles ==
    [readable : BOOLEAN, places : UNION {[1..n -> BOOLEAN] : n \in 0..MaxPlaces}]
PatternFileLists == UNION {[1..n -> PatternFiles] : n \in 1..MaxPatternFiles}

\* The match pushed for a place of a file.
PatternMatch(fileIndex, place) == [file |-> fileIndex, place |-> place]

RECURSIVE RegexScan(_, _, _, _, _)
\* while ((match = regex.exec(text)) !== null): the matches pushed from
\* place k on; the loop is left once the matches have reached maxResults.
RegexScan(matches, file, fileIndex, k, maxResults) ==
    IF k > Len(file.places) THEN matches
    ELSE IF ~file.places[k] THEN RegexScan(matches, file, fileIndex, k + 1, maxResults)
    ELSE LET pushed == Append(matches, PatternMatch(fileIndex, k))
         IN IF Len(pushed) >= maxResults THEN pushed
            ELSE RegexScan(pushed, file, fileIndex, k + 1, maxResults)

RECURSIVE NodeScan(_, _, _, _, _)
\* sourceFile.forEachDescendant: a node is looked at only while the matches
\* are fewer than maxResults.
NodeScan(matches, file, fileIndex, k, maxResults) ==
    IF k > Len(file.places) THEN matches
    ELSE IF Len(matches) >= maxResults
         THEN NodeScan(matches, file, fileIndex, k + 1, maxResults)
    ELSE IF file.places[k]
         THEN NodeScan(Append(matches, PatternMatch(fileIndex, k)), file, fileIndex,
                       k + 1, maxResults)
    ELSE NodeScan(matches, file, fileIndex, k + 1, maxResults)

\* The work done for one file: nothing is pushed when the file cannot be
\* read, the error is caught and logged.
ScanFileOf(matches, file, fileIndex, patternType, maxResults) ==
    IF ~file.readable THEN matches
    ELSE IF patternType = "regex" THEN RegexScan(matches, file, fileIndex, 1, maxResults)
    ELSE NodeScan(matches, file, fileIndex, 1, maxResults)

NoPatternsCall ==
    [phase |-> "idle", patternType |-> "regex", maxResults |-> 0, files |-> <<>>,
     next |-> 1, matches |-> <<>>, result |-> [matches |-> <<>>, totalMatches |-> 0]]

PatternsFrame ==
    UNCHANGED <<cacheVars, keyVars, scopeVars, complexityVars, smellsVars, analyzeVars,
                refsVars, summaryVars, fileVars, limitVars, searchVars, parsedVars, lruVars, contextVars, hierarchyVars>>

\* findPatterns up to the fan-out over the files found.
FindPatterns ==
    /\ patternsCall.phase = "idle"
    /\ \E patternType \in PatternTypes, maxResults \in 0..MaxCap,
          files \in PatternFileLists :
          patternsCall' = [patternsCall EXCEPT
                              !.phase = "scanning", !.patternType = patternType,
                              !.maxResults = maxResults, !.files = files]
    /\ PatternsFrame

\* The work of the limiter for the next file; it has no await, and so runs
\* from its start to its end, the files in the order they were found.
ScanFile ==
    /\ patternsCall.phase = "scanning"
    /\ patternsCall.next <= Len(patternsCall.files)
    /\ patternsCall' = [patternsCall EXCEPT
                           !.next = @ + 1,
                           !.matches = ScanFileOf(@, patternsCall.files[patternsCall.next],
                                                  patternsCall.next,
                                                  patternsCall.patternType,
                                                  patternsCall.maxResults)]
    /\ PatternsFrame

\* After Promise.all: the result returned.
FindPatternsReturn ==
    /\ patternsCall.phase = "scanning"
    /\ patternsCall.next > Len(patternsCall.files)
    /\ patternsCall' = [patternsCall EXCEPT
                           !.phase = "returned",
                           !.result = [matches |-> Slice(patternsCall.matches,
                                                         patternsCall.maxResults),
                                       totalMatches |-> Len(patternsCall.matches)]]
    /\ PatternsFrame

NextPatterns == FindPatterns \/ ScanFile \/ FindPatternsReturn

\* C13: maxResults is a hard cap during the scan, for each of the three
\* strategies: the matches collected over the files never exceed it, and
\* totalMatches is at most maxResults.  (Violated by the regex strategy,
\* which pushes the first match of every further file before it looks at
\* the cap.)
MaxResultsHardCap ==
    patternsCall.maxResults >= 1 =>
        /\ Len(patternsCall.matches) <= patternsCall.maxResults
        /\ patternsCall.result.totalMatches <= patternsCall.maxResults

(***************************************************************************)
(* Codebase summary: summarizeCodebase, its overview and metrics.  A file  *)
(* is [ext, readable, lines, complexity, imports]; of a file that cannot   *)
(* be read only the extension of its name is known.                        *)
(***************************************************************************)
\* Bound: the files found under the root.
MaxSummaryFiles == 2

Extensions == {".ts", ".js"}
Modules == {"./x", "lodash"}
\* mod.startsWith(".") || mod.startsWith("/")
InternalModules == {"./x"}

SummaryFiles ==
    [ext : Extensions, readable : {TRUE}, lines : 1..2, complexity : 1..2,
     imports : {<<>>} \cup {<<m>> : m \in Modules}]
    \cup [ext : Extensions, readable : {FALSE}, lines : {0}, complexity : {0},
          imports : {<<>>}]
SummaryFileLists == UNION {[1..n -> SummaryFiles] : n \in 1..MaxSummaryFiles}

\* The files summarised, the most imported modules and the most complex
\* files shown.
MaxSummarized == 100
MostImportedShown == 10
HighestShown == 5

RECURSIVE SumOf(_, _)
\* numbers.reduce((sum, n) => sum + n, 0)
SumOf(numbers, i) == IF i > Len(numbers) THEN 0 ELSE numbers[i] + SumOf(numbers, i + 1)

\* Insertion of x into a sequence in ascending order of rank, after the
\* entries of its own rank.
InsertByRank(sorted, x) ==
    LET later == {j \in 1..Len(sorted) : x.rank < sorted[j].rank}
        at == IF later = {} THEN Len(sorted) + 1
              ELSE CHOOSE j \in later : \A k \in later : j <= k
    IN SubSeq(sorted, 1, at - 1) \o <<x>> \o SubSeq(sorted, at, Len(sorted))

RECURSIVE SortByRank(_, _)
\* array.sort by rank: entries of equal rank keep their order.
SortByRank(array, n) ==
    IF n = 0 THEN <<>> ELSE InsertByRank(SortByRank(array, n - 1), array[n])

\* importCounts[module] = (importCounts[module] || 0) + 1, the keys of the
\* object in the order they were first set.
BumpCount(counts, module) ==
    IF \E i \in 1..Len(counts) : counts[i].module = module
    THEN [i \in 1..Len(counts) |->
            IF counts[i].module = module
            THEN [counts[i] EXCEPT !.count = @ + 1] ELSE counts[i]]
    ELSE Append(counts, [module |-> module, count |-> 1])

RECURSIVE BumpAll(_, _, _)
BumpAll(counts, modules, i) ==
    IF i > Len(modules) THEN counts
    ELSE BumpAll(BumpCount(counts, modules[i]), modules, i + 1)

NoCollected ==
    [languages |-> [e \in Extensions |-> 0], fileLines |-> <<>>,
     complexityData |-> <<>>, importCounts |-> <<>>]

\* The work done for one file.  The extension is counted first; reading the
\* file raises the error, which is caught and logged.
SummarizeFileOf(collected, file, fileIndex, includeMetrics) ==
    LET counted == [collected EXCEPT !.languages[file.ext] = @ + 1]
    IN IF ~file.readable THEN counted
       ELSE LET lined == [counted EXCEPT !.fileLines = Append(@, file.lines)]
            IN IF ~includeMetrics THEN lined
               ELSE [lined EXCEPT
                       !.complexityData =
                           Append(@, [file |-> fileIndex, complexity |-> file.complexity]),
                       !.importCounts = BumpAll(@, file.imports, 1)]

\* Math.round(total / count * 10) / 10, in tenths.
AverageTenths(total, count) == (20 * total + count) \div (2 * count)

NoMetrics == [def |-> FALSE, average |-> 0, highest |-> <<>>, internal |-> 0,
              external |-> 0, mostImported |-> <<>>]

\* The metrics of the summary, when asked for and any file was analysed.
MetricsOf(collected, includeMetrics) ==
    IF ~(includeMetrics /\ Len(collected.complexityData) > 0) THEN NoMetrics
    ELSE LET data == collected.complexityData
             ranked == [i \in 1..Len(data) |->
                          [rank |-> 0 - data[i].complexity, item |-> data[i]]]
             sorted == SortByRank(ranked, Len(ranked))
             counts == collected.importCounts
             countRanked == [i \in 1..Len(counts) |->
                               [rank |-> 0 - counts[i].count, item |-> counts[i]]]
             countSorted == SortByRank(countRanked, Len(countRanked))
             IsInternal(c) == c.module \in InternalModules
             IsExternal(c) == c.module \notin InternalModules
         IN [def |-> TRUE,
             average |-> AverageTenths(
                 SumOf([i \in 1..Len(data) |-> data[i].complexity], 1), Len(data)),
             highest |-> Slice([i \in 1..Len(sorted) |-> sorted[i].item], HighestShown),
             internal |-> Len(SelectSeq(counts, IsInternal)),
             external |-> Len(SelectSeq(counts, IsExternal)),
             mostImported |-> Slice([i \in 1..Len(countSorted) |-> countSorted[i].item],
                                    MostImportedShown)]

NoSummary == [totalFiles |-> 0, totalLines |-> 0,
              languages |-> [e \in Extensions |-> 0], metrics |-> NoMetrics]

NoSummaryCall ==
    [phase |-> "idle", includeMetrics |-> FALSE, files |-> <<>>, next |-> 1,
     collected |-> NoCollected, summary |-> NoSummary]

SummaryFrame ==
    UNCHANGED <<cacheVars, keyVars, scopeVars, complexityVars, smellsVars, analyzeVars,
                refsVars, patternsVars, fileVars, limitVars, searchVars, parsedVars, lruVars, contextVars, hierarchyVars>>

\* summarizeCodebase up to the fan-out: the files found are counted.
SummarizeCodebase ==
    /\ summaryCall.phase = "idle"
    /\ \E files \in SummaryFileLists, includeMetrics \in BOOLEAN :
          summaryCall' = [summaryCall EXCEPT
                             !.phase = "summarizing", !.files = files,
                             !.includeMetrics = includeMetrics,
                             !.summary.totalFiles = Len(files)]
    /\ SummaryFrame

\* The work of the limiter for the next of the first 100 files.
SummarizeFile ==
    /\ summaryCall.phase = "summarizing"
    /\ summaryCall.next <= Len(Slice(summaryCall.files, MaxSummarized))
    /\ summaryCall' = [summaryCall EXCEPT
                          !.next = @ + 1,
                          !.collected = SummarizeFileOf(@, summaryCall.files[summaryCall.next],
                                                        summaryCall.next,
                                                        summaryCall.includeMetrics)]
    /\ SummaryFrame

\* After Promise.all: the totals and the metrics.
SummarizeCodebaseReturn ==
    /\ summaryCall.phase = "summarizing"
    /\ summaryCall.next > Len(Slice(summaryCall.files, MaxSummarized))
    /\ summaryCall' = [summaryCall EXCEPT
                          !.phase = "returned",
                          !.summary.totalLines = SumOf(summaryCall.collected.fileLines, 1),
                          !.summary.languages = summaryCall.collected.languages,
                          !.summary.metrics = MetricsOf(summaryCall.collected,
                                                        summaryCall.includeMetrics)]
    /\ SummaryFrame

NextSummary == SummarizeCodebase \/ SummarizeFile \/ SummarizeCodebaseReturn

\* The files of the call that could be read.
FilesRead ==
    LET Readable(f) == f.readable
    IN SelectSeq(summaryCall.files, Readable)

\* C14: an error raised while one file is processed does not abort the
\* operation, and the result holds what the other files contribute and
\* nothing of the failing file: the lines, the languages and the measured
\* files are those of the files that could be read.  (Violated: the
\* extension of a file is counted before the file is read.)
FailingFileOmitted ==
    summaryCall.phase = "returned" =>
        /\ summaryCall.summary.totalLines
             = SumOf([i \in 1..Len(FilesRead) |-> FilesRead[i].lines], 1)
        /\ \A e \in Extensions :
             summaryCall.summary.languages[e]
               = Len(SelectSeq(FilesRead, LAMBDA f : f.ext = e))
        /\ summaryCall.includeMetrics
             => Len(summaryCall.collected.complexityData) = Len(FilesRead)

(***************************************************************************)
(* The analyze_file handler: analyzeFile with its memory check and its     *)
(* timeout race.  Times are in ms, sizes in KB.                            *)
(***************************************************************************)
\* Bounds: the entries put in a cache, the seconds an analysis takes.
MaxCached == 1
MaxWorkSeconds == 6

\* timeoutLimits.singleFile, performanceConfig.maxMemoryMB, and the sizes
\* getMemoryUsage takes for a parsed file and for a symbol.
SingleFileLimit == 5000
MaxMemoryMB == 2048
AvgFileSizeKB == 50
AvgSymbolSizeKB == 1

\* The caches of the process: fileCache and symbolCache of utils.ts, and
\* the parsed-file, symbol and persisted analysis caches of the cacheManager.
CacheNames == {"utilsFile", "utilsSymbol", "managerFile", "managerSymbol", "analysis"}
NoCaches == [c \in CacheNames |-> 0]

\* process.memoryUsage().heapUsed as read by a call: just below and just
\* above 90% of the ceiling, which is 1887436.8 KB.
HeapReadings == {1887436, 1887437}

SamplePaths ==
    { [abs |-> FALSE, segs |-> <<"src", "a.ts">>],
      [abs |-> FALSE, segs |-> <<"..", "a.ts">>],
      [abs |-> FALSE, segs |-> <<"node_modules", "a.ts">>] }

\* cacheManager.getMemoryUsage()
GetMemoryUsage(held) ==
    held["managerFile"] * AvgFileSizeKB + held["managerSymbol"] * AvgSymbolSizeKB

\* sizeKB / 1024 > performanceConfig.maxMemoryMB * 0.9
OverNineTenths(sizeKB) == 10 * sizeKB > 9 * MaxMemoryMB * 1024

\* checkMemoryUsage of utils.ts: the heap alone is measured, and fileCache
\* and symbolCache of utils.ts are cleared.
CheckMemoryUsage(held, heapUsedKB) ==
    IF OverNineTenths(heapUsedKB)
    THEN [held EXCEPT !["utilsFile"] = 0, !["utilsSymbol"] = 0]
    ELSE held

\* withTimeout(promise, operation, limit) called at a time: the race of the
\* promise against a timer that rejects at time + limit.
WithTimeout(promise, time, limit) ==
    [work |-> promise, timer |-> "pending", timerAt |-> time + limit,
     settled |-> "pending"]

NoRace == [work |-> "none", timer |-> "none", timerAt |-> 0, settled |-> "none"]

NoFileCall ==
    [phase |-> "idle", path |-> NoPath, heapUsedKB |-> 0, heldBefore |-> NoCaches,
     checked |-> FALSE, workMs |-> 0, race |-> NoRace, outcome |-> "none",
     summary |-> SummaryOf(NoAnalyzeCall.result)]

FileFrame ==
    UNCHANGED <<cacheVars, keyVars, scopeVars, complexityVars, smellsVars, analyzeVars,
                refsVars, patternsVars, summaryVars, limitVars, searchVars, parsedVars, lruVars, contextVars, hierarchyVars>>

\* An entry is put in one of the caches, before the call.
CacheSet ==
    /\ fileCall.phase = "idle"
    /\ \E c \in CacheNames :
          /\ caches[c] < MaxCached
          /\ caches' = [caches EXCEPT ![c] = @ + 1]
    /\ UNCHANGED <<clock, fileCall>>
    /\ FileFrame

\* analyzeFile up to its await: validatePath, checkMemoryUsage, the read,
\* then analyzeSourceFile, which runs to its end before withTimeout is
\* called on the promise of its result.
AnalyzeFileRun ==
    /\ fileCall.phase = "idle"
    /\ \E filePath \in SamplePaths, readable \in BOOLEAN, heapUsedKB \in HeapReadings,
          workSeconds \in 0..MaxWorkSeconds, analysisType \in {"all", "symbols"} :
          LET call == [fileCall EXCEPT !.path = filePath, !.heapUsedKB = heapUsedKB,
                                       !.heldBefore = caches]
              done == clock + 1000 * workSeconds
          IN IF ValidatePath(filePath) # "none"
             THEN /\ fileCall' = [call EXCEPT !.phase = "ended",
                                              !.outcome = ValidatePath(filePath)]
                  /\ UNCHANGED <<caches, clock>>
             ELSE /\ caches' = CheckMemoryUsage(caches, heapUsedKB)
                  /\ IF ~readable
                     THEN /\ fileCall' = [call EXCEPT !.phase = "ended", !.checked = TRUE,
                                                      !.outcome = "OTHER_ERROR"]
                          /\ UNCHANGED clock
                     ELSE /\ fileCall' =
                               [call EXCEPT
                                  !.phase = "awaiting", !.checked = TRUE,
                                  !.workMs = 1000 * workSeconds,
                                  !.race = WithTimeout("resolved", done, SingleFileLimit),
                                  !.summary = SummaryOf(AnalyzeSourceFileOf(
                                                  ScenarioFile, analysisType, FALSE))]
                          /\ clock' = done
    /\ FileFrame

\* Promise.race settles as the first of its promises that is settled, and
\* analyzeFile goes on after its await: with the result, or with the
\* TimeoutError thrown.
RaceSettles ==
    /\ fileCall.phase = "awaiting"
    /\ fileCall.race.settled = "pending"
    /\ fileCall.race.work = "resolved" \/ fileCall.race.timer = "rejected"
    /\ LET first == IF fileCall.race.work = "resolved" THEN "result" ELSE "TIMEOUT"
       IN fileCall' = [fileCall EXCEPT !.race.settled = first, !.phase = "ended",
                                       !.outcome = first]
    /\ UNCHANGED <<caches, clock>>
    /\ FileFrame

\* The timer of withTimeout fires at its time and rejects; a promise
\* reaction that is due runs before any timer does.
TimerFires ==
    /\ fileCall.race.timer = "pending"
    /\ ~(fileCall.race.settled = "pending" /\ fileCall.race.work = "resolved")
    /\ clock' = fileCall.race.timerAt
    /\ fileCall' = [fileCall EXCEPT !.race.timer = "rejected"]
    /\ UNCHANGED caches
    /\ FileFrame

NextFile == CacheSet \/ AnalyzeFileRun \/ RaceSettles \/ TimerFires

\* C15: an analyze_file whose work runs longer than the limit of its class,
\* 5000 ms, is aborted by the timeout race and ends with a timeout error
\* instead of its result.  (Violated: the work has run to its end before the
\* race is set up.)
SlowAnalysisTimesOut ==
    (fileCall.phase = "ended" /\ fileCall.workMs > SingleFileLimit)
    => fileCall.outcome = "TIMEOUT"

\* The heap read by the call and the footprint of the caches then held,
\* together, are above 90% of the ceiling.
UnderPressure == OverNineTenths(fileCall.heapUsedKB + GetMemoryUsage(fileCall.heldBefore))

\* C18: when heap usage plus the footprint of the caches is above 90% of the
\* ceiling as an analysis starts, every cache is empty once the analysis of
\* the file goes on.  (Violated: the footprint is not measured, and the
\* caches of the cacheManager are not cleared.)
PressureClearsEveryCache ==
    (fileCall.checked /\ UnderPressure)
    => \A c \in CacheNames : caches[c] = 0

(***************************************************************************)
(* The concurrency limiter: limit = pLimit(5), through which every         *)
(* multi-file operation of tools.ts passes the work of each of its files.  *)
(***************************************************************************)
\* Bound: the files of an operation.
MaxLimitFiles == 3

\* pLimit(5)
Concurrency == 5

\* Two multi-file operations running at once in the process.
Operations == {"find_patterns", "detect_code_smells"}

NoLimiter == [activeCount |-> 0, queue |-> <<>>]
NoFanOut == [phase |-> "idle", files |-> 0, running |-> 0, done |-> 0]
NoFanOuts == [op \in Operations |-> NoFanOut]

CanRunAlways(activeCount) == TRUE

\* The limiter starts queued work only while fewer than 5 are running.
CanRun(activeCount) == activeCount < Concurrency

LimitFrame ==
    UNCHANGED <<cacheVars, keyVars, scopeVars, complexityVars, smellsVars, analyzeVars,
                refsVars, patternsVars, summaryVars, fileVars, searchVars, parsedVars, lruVars, contextVars, hierarchyVars>>

\* files.map(file => limit(async () => ...)): the work of every file of the
\* operation is handed to the limiter, which queues it.
FanOut ==
    /\ \E op \in Operations, n \in 1..MaxLimitFiles :
          /\ fanOuts[op].phase = "idle"
          /\ fanOuts' = [fanOuts EXCEPT ![op] = [NoFanOut EXCEPT !.phase = "awaiting",
                                                                !.files = n]]
          /\ limiter' = [limiter EXCEPT !.queue = @ \o [i \in 1..n |-> op]]
    /\ LimitFrame

\* The limiter takes the work at the head of its queue and runs it.
Resume ==
    /\ limiter.queue # <<>>
    /\ CanRun(limiter.activeCount)
    /\ LET op == Head(limiter.queue)
       IN /\ limiter' = [activeCount |-> limiter.activeCount + 1,
                         queue |-> Tail(limiter.queue)]
          /\ fanOuts' = [fanOuts EXCEPT ![op].running = @ + 1]
    /\ LimitFrame

\* The work of a file ends, with its result or its error caught: the
\* limiter counts it out.
WorkSettles ==
    /\ \E op \in Operations :
          /\ fanOuts[op].running > 0
          /\ fanOuts' = [fanOuts EXCEPT ![op].running = @ - 1, ![op].done = @ + 1]
          /\ limiter' = [limiter EXCEPT !.activeCount = @ - 1]
    /\ LimitFrame

\* Promise.all of the operation resolves once the work of all its files
\* has ended.
FanOutReturns ==
    /\ \E op \in Operations :
          /\ fanOuts[op].phase = "awaiting"
          /\ fanOuts[op].done = fanOuts[op].files
          /\ fanOuts' = [fanOuts EXCEPT ![op].phase = "returned"]
    /\ UNCHANGED limiter
    /\ LimitFrame

NextLimit == FanOut \/ Resume \/ WorkSettles \/ FanOutReturns

RECURSIVE InFlightOf(_)
\* The file-level work units in flight over the operations in a set.
InFlightOf(ops) ==
    IF ops = {} THEN 0
    ELSE LET op == CHOOSE o \in ops : TRUE
         IN fanOuts[op].running + InFlightOf(ops \ {op})

\* C16: at every moment at most 5 file-level work units are in flight, over
\* all the multi-file operations running in the process.
AtMostFiveInFlight ==
    /\ InFlightOf(Operations) <= Concurrency
    /\ limiter.activeCount = InFlightOf(Operations)

\* Both operations have work in flight, 5 units in all, and a sixth waits
\* in the queue.
FiveInFlightWitness ==
    /\ InFlightOf(Operations) = Concurrency
    /\ \A op \in Operations : fanOuts[op].running > 0
    /\ limiter.queue # <<>>

(***************************************************************************)
(* Symbol search: searchSymbols.  A file is the names of its symbols, in   *)
(* the order analyzeSourceFile gives them; the query is "foo".  Scores are *)
(* in tenths.                                                              *)
(***************************************************************************)
\* Bounds: the files searched, the symbols of a file.
MaxSearchFiles == 2
MaxSymbols == 2

\* maxResults of search_symbols when none is given.
DefaultSearchResults == 50

SymbolNames == {"foo", "foobar", "bar"}

\* calculateSearchScore for the query "foo": of the search type text, 1.0 for
\* the name itself, 0.8 for a name that starts with it, 0.6 for one that
\* holds it, 0 otherwise; of the search type ast-pattern, 0.
CalculateSearchScore(name, searchType) ==
    IF searchType = "text"
    THEN CASE name = "foo" -> 10
           [] name = "foobar" -> 8
           [] OTHER -> 0
    ELSE 0

SearchFiles == UNION {[1..n -> SymbolNames] : n \in 1..MaxSymbols}
SearchFileLists == UNION {[1..n -> SearchFiles] : n \in 1..MaxSearchFiles}

\* The orders in which the work of n files can arrive.
Arrivals(n) == {order \in [1..n -> 1..n] : \A i, j \in 1..n : order[i] = order[j] => i = j}

RECURSIVE SearchFileOf(_, _, _, _, _)
\* The work done for one file: a match is pushed for each of its symbols
\* that scores above 0, from symbol k on.
SearchFileOf(matches, file, fileIndex, k, searchType) ==
    IF k > Len(file) THEN matches
    ELSE LET score == CalculateSearchScore(file[k], searchType)
             pushed == IF score > 0
                       THEN Append(matches, [name |-> file[k], file |-> fileIndex,
                                             score |-> score])
                       ELSE matches
         IN SearchFileOf(pushed, file, fileIndex, k + 1, searchType)

RECURSIVE SearchAllOf(_, _, _, _, _)
\* The matches pushed by the work of the files arriving in an order.
SearchAllOf(matches, files, order, i, searchType) ==
    IF i > Len(order) THEN matches
    ELSE SearchAllOf(SearchFileOf(matches, files[order[i]], order[i], 1, searchType),
                     files, order, i + 1, searchType)

\* matches.sort((a, b) => b.score - a.score), then the top maxResults.
SearchResultOf(matches, maxResults) ==
    LET ranked == [i \in 1..Len(matches) |->
                     [rank |-> 0 - matches[i].score, item |-> matches[i]]]
        sorted == SortByRank(ranked, Len(ranked))
    IN [matches |-> Slice([i \in 1..Len(sorted) |-> sorted[i].item], maxResults),
        totalMatches |-> Len(matches)]

NoSearchCall ==
    [phase |-> "idle", searchType |-> "text", maxResults |-> 0, files |-> <<>>,
     order |-> <<>>, next |-> 1, matches |-> <<>>,
     result |-> [matches |-> <<>>, totalMatches |-> 0]]

SearchFrame ==
    UNCHANGED <<cacheVars, keyVars, scopeVars, complexityVars, smellsVars, analyzeVars,
                refsVars, patternsVars, summaryVars, fileVars, limitVars, parsedVars, lruVars, contextVars, hierarchyVars>>

\* searchSymbols up to the fan-out; order is the order in which the work of
\* the files will arrive.
SearchSymbols ==
    /\ searchCall.phase = "idle"
    /\ \E files \in SearchFileLists, searchType \in {"text", "ast-pattern"},
          maxResults \in {1, DefaultSearchResults} :
          \E order \in Arrivals(Len(files)) :
             searchCall' = [searchCall EXCEPT
                               !.phase = "searching", !.files = files, !.order = order,
                               !.searchType = searchType, !.maxResults = maxResults]
    /\ SearchFrame

\* The work of the limiter for the file that arrives next.
SearchFile ==
    /\ searchCall.phase = "searching"
    /\ searchCall.next <= Len(searchCall.order)
    /\ LET fileIndex == searchCall.order[searchCall.next]
       IN searchCall' = [searchCall EXCEPT
                            !.next = @ + 1,
                            !.matches = SearchFileOf(@, searchCall.files[fileIndex],
                                                     fileIndex, 1, searchCall.searchType)]
    /\ SearchFrame

\* After Promise.all: the sort and the result.
SearchSymbolsReturn ==
    /\ searchCall.phase = "searching"
    /\ searchCall.next > Len(searchCall.order)
    /\ searchCall' = [searchCall EXCEPT
                         !.phase = "returned",
                         !.result = SearchResultOf(searchCall.matches,
                                                   searchCall.maxResults)]
    /\ SearchFrame

NextSearch == SearchSymbols \/ SearchFile \/ SearchSymbolsReturn

\* What the run returns when the work of the files arrives in the order of
\* the files.
ResultInFileOrder ==
    SearchResultOf(
        SearchAllOf(<<>>, searchCall.files, [i \in 1..Len(searchCall.files) |-> i], 1,
                    searchCall.searchType),
        searchCall.maxResults)

\* C17: the order of the output is that of the final sort, not that of
\* arrival: a run returns the matches in the order a run over the same
\* files returns them whose work arrives in another order.  (Violated: the
\* sort is by score alone, matches of one score stay in order of arrival.)
OrderIndependentOfArrival ==
    searchCall.phase = "returned" => searchCall.result.matches = ResultInFileOrder.matches

(***************************************************************************)
(* The parsed-file cache: CacheManager.getCachedFile, setCachedFile and    *)
(* isFileCacheValid, called by parallel workers for one path.  Between the *)
(* awaits of a call the other worker runs and the file changes on disk.    *)
(***************************************************************************)
\* Bounds: the cache operations started, the writes of the file.
MaxFileOps == 3
MaxWrites == 2

Workers == {"w1", "w2"}
Contents == {"x = 1", "x = 2"}
Strategies == {"manual", "timestamp", "content-hash"}
\* The option given, "" when none is.
InvalidationOptions == Strategies \cup {""}

\* this.options.invalidation
Invalidation == IF optionsInvalidation = "" THEN "content-hash" ELSE optionsInvalidation

InitialDisk == [mtime |-> 0, content |-> "x = 1"]

NoParsedFile ==
    [def |-> FALSE, sourceFile |-> "", lastModified |-> 0, contentHash |-> "", stamp |-> 0]

NoWorker ==
    [pc |-> "idle", cached |-> NoParsedFile, sourceFile |-> "", lastModified |-> 0,
     contentHash |-> "", valid |-> FALSE, diskSeen |-> InitialDisk,
     last |-> "none", result |-> NoParsedFile]
NoWorkers == [w \in Workers |-> NoWorker]
NoStarted == [ops |-> 0, writes |-> 0, stamps |-> 0]

TimestampValidStrict(lastModified, cachedLastModified) == lastModified < cachedLastModified

\* stats.lastModified <= cached.lastModified
TimestampValid(lastModified, cachedLastModified) == lastModified <= cachedLastModified

\* currentHash === cached.contentHash
HashValid(content, cachedContentHash) == Sha256Hex(content) = cachedContentHash

ParsedFrame ==
    UNCHANGED <<cacheVars, keyVars, scopeVars, complexityVars, smellsVars, analyzeVars,
                refsVars, patternsVars, summaryVars, fileVars, limitVars, searchVars, lruVars, contextVars, hierarchyVars>>

\* The file is written: its modification time moves on, its content is the
\* one written.
WriteFile ==
    /\ started.writes < MaxWrites
    /\ \E content \in Contents :
          disk' = [disk EXCEPT !.mtime = @ + 1, !.content = content]
    /\ started' = [started EXCEPT !.writes = @ + 1]
    /\ UNCHANGED <<optionsInvalidation, fileCache, workers>>
    /\ ParsedFrame

\* getCachedFile up to its await: the entry is read; without an entry
\* undefined is returned at once, with the manual strategy the entry is
\* valid without a look at the file.
GetCachedFile ==
    /\ started.ops < MaxFileOps
    /\ \E w \in Workers :
          /\ workers[w].pc = "idle"
          /\ workers' =
               [workers EXCEPT ![w] =
                  IF ~fileCache.def
                  THEN [NoWorker EXCEPT !.last = "get", !.diskSeen = disk]
                  ELSE [NoWorker EXCEPT
                          !.pc = IF Invalidation = "manual" THEN "getDecide" ELSE "getStat",
                          !.valid = (Invalidation = "manual"),
                          !.cached = fileCache, !.diskSeen = disk]]
    /\ started' = [started EXCEPT !.ops = @ + 1]
    /\ UNCHANGED <<optionsInvalidation, fileCache, disk>>
    /\ ParsedFrame

\* isFileCacheValid: getFileStats reads the modification time; with the
\* timestamp strategy that decides.
GetStat ==
    /\ \E w \in Workers :
          /\ workers[w].pc = "getStat"
          /\ workers' =
               [workers EXCEPT ![w] =
                  IF Invalidation = "timestamp"
                  THEN [@ EXCEPT !.pc = "getDecide", !.lastModified = disk.mtime,
                                 !.valid = TimestampValid(disk.mtime,
                                                          workers[w].cached.lastModified)]
                  ELSE [@ EXCEPT !.pc = "getHash", !.lastModified = disk.mtime]]
    /\ UNCHANGED <<optionsInvalidation, fileCache, disk, started>>
    /\ ParsedFrame

\* isFileCacheValid with the content-hash strategy: getContentHash reads the
\* file.
GetHash ==
    /\ \E w \in Workers :
          /\ workers[w].pc = "getHash"
          /\ workers' =
               [workers EXCEPT ![w] =
                  [@ EXCEPT !.pc = "getDecide", !.contentHash = Sha256Hex(disk.content),
                            !.valid = HashValid(disk.content, workers[w].cached.contentHash)]]
    /\ UNCHANGED <<optionsInvalidation, fileCache, disk, started>>
    /\ ParsedFrame

\* getCachedFile after its await: the entry read is returned when valid;
\* when not, the entry of the path is deleted and undefined returned.
GetDecide ==
    /\ \E w \in Workers :
          /\ workers[w].pc = "getDecide"
          /\ workers' =
               [workers EXCEPT ![w] =
                  [@ EXCEPT !.pc = "idle", !.last = "get",
                            !.result = IF workers[w].valid THEN workers[w].cached
                                         ELSE NoParsedFile]]
          /\ fileCache' = IF workers[w].valid THEN fileCache ELSE NoParsedFile
    /\ UNCHANGED <<optionsInvalidation, disk, started>>
    /\ ParsedFrame

\* setCachedFile(filePath, sourceFile) of the file just parsed, up to the
\* modification time that getFileStats reads.
SetCachedFile ==
    /\ started.ops < MaxFileOps
    /\ \E w \in Workers :
          /\ workers[w].pc = "idle"
          /\ workers' =
               [workers EXCEPT ![w] =
                  [NoWorker EXCEPT
                     !.pc = IF Invalidation = "content-hash" THEN "setHash" ELSE "setStore",
                     !.sourceFile = disk.content, !.lastModified = disk.mtime,
                     !.diskSeen = disk]]
    /\ started' = [started EXCEPT !.ops = @ + 1]
    /\ UNCHANGED <<optionsInvalidation, fileCache, disk>>
    /\ ParsedFrame

\* setCachedFile with the content-hash strategy: getContentHash reads the
\* file.
SetHash ==
    /\ \E w \in Workers :
          /\ workers[w].pc = "setHash"
          /\ workers' = [workers EXCEPT ![w] =
                           [@ EXCEPT !.pc = "setStore",
                                     !.contentHash = Sha256Hex(disk.content)]]
    /\ UNCHANGED <<optionsInvalidation, fileCache, disk, started>>
    /\ ParsedFrame

\* this.fileCache.set(filePath, { sourceFile, lastModified, contentHash })
SetStore ==
    /\ \E w \in Workers :
          /\ workers[w].pc = "setStore"
          /\ fileCache' = [def |-> TRUE, sourceFile |-> workers[w].sourceFile,
                           lastModified |-> workers[w].lastModified,
                           contentHash |-> workers[w].contentHash,
                           stamp |-> started.stamps + 1]
          /\ workers' = [workers EXCEPT ![w] = [@ EXCEPT !.pc = "idle", !.last = "set"]]
    /\ started' = [started EXCEPT !.stamps = @ + 1]
    /\ UNCHANGED <<optionsInvalidation, disk>>
    /\ ParsedFrame

NextFileCache ==
    \/ WriteFile
    \/ GetCachedFile \/ GetStat \/ GetHash \/ GetDecide
    \/ SetCachedFile \/ SetHash \/ SetStore

\* C19: getCachedFile and setCachedFile running at once on a path do not
\* race: the deletion by which a getCachedFile drops a stale entry never
\* removes an entry that a setCachedFile inserted after that getCachedFile
\* read the cache.  (Violated: the deletion is by path, after an await.)
EvictionRemovesEntryRead ==
    [][\A w \in Workers :
         (workers[w].pc = "getDecide" /\ workers'[w].pc = "idle" /\ ~fileCache'.def)
         => fileCache.stamp <= workers[w].cached.stamp]_vars

\* The entry is valid under the strategy in force, for the file as it is.
EntryValid(entry) ==
    CASE Invalidation = "manual" -> TRUE
      [] Invalidation = "timestamp" -> disk.mtime <= entry.lastModified
      [] OTHER -> Sha256Hex(disk.content) = entry.contentHash

ReturnedFileParsedFromCheckedContent ==
    \A w \in Workers :
        (/\ Invalidation = "content-hash"
         /\ workers[w].pc = "idle"
         /\ workers[w].last = "get"
         /\ workers[w].result.def)
        => Sha256Hex(workers[w].result.sourceFile) = workers[w].contentHash

(***************************************************************************)
(* The bounded caches of the CacheManager: fileCache (max 1000, with a     *)
(* dispose that forgets the source file) and symbolCache (max 10000), as   *)
(* the global cacheManager = new CacheManager() holds them: the strategy   *)
(* is content-hash.  A cache is the sequence of its entries [k, v] from    *)
(* the least to the most recently used.  Paths, keys and source-file       *)
(* handles are numbers; a file holds "x = 1" until it is rewritten.        *)
(***************************************************************************)
\* Bounds: the cache operations started, the files rewritten.
MaxLruOps == 2
MaxRewrites == 1

\* max of this.fileCache and of this.symbolCache
FileCacheMax == 1000
SymbolCacheMax == 10000

\* The paths and keys the operations are called with: the oldest of a warm
\* cache and one that a warm cache does not hold.
FilePaths == {1, FileCacheMax + 1}
SymbolKeys == {1, SymbolCacheMax + 1}

\* The caches after setCachedFile, or setCachedSymbol, of the keys 1..n in
\* that order, each file parsed into the handle of its own number.
WarmFiles(n) ==
    [i \in 1..n |-> [k |-> i, v |-> [sourceFile |-> i, contentHash |-> Sha256Hex("x = 1")]]]
WarmSymbols(n) == [i \in 1..n |-> [k |-> i, v |-> i]]
\* The process starts with its caches empty, or is met with one of them full.
WarmCaches ==
    {[files |-> WarmFiles(0), symbols |-> WarmSymbols(0)],
     [files |-> WarmFiles(FileCacheMax), symbols |-> WarmSymbols(0)],
     [files |-> WarmFiles(0), symbols |-> WarmSymbols(SymbolCacheMax)]}

NoHandle == 0
NoCachedFile == [sourceFile |-> NoHandle, contentHash |-> ""]
NoPending == [key |-> 0, cached |-> NoCachedFile]
NoLruCall == [n |-> 0, op |-> "none", cache |-> "", key |-> 0, result |-> NoCachedFile]
NoUses == [files |-> <<>>, symbols |-> <<>>]

\* The content of the file of a path.
ContentOf(path) == IF path \in rewritten THEN "x = 2" ELSE "x = 1"

LruKeys(c) == {c[i].k : i \in 1..Len(c)}
LruHas(c, key) == \E i \in 1..Len(c) : c[i].k = key
LruValue(c, key) == c[CHOOSE i \in 1..Len(c) : c[i].k = key].v
LruWithout(c, key) == SelectSeq(c, LAMBDA e : e.k # key)

\* c.get(key): the cache afterwards, the entry of the key now the most
\* recently used.
LruGet(c, key) ==
    IF LruHas(c, key) THEN Append(LruWithout(c, key), [k |-> key, v |-> LruValue(c, key)])
    ELSE c

LruSetUnbounded(c, max, key, value) ==
    IF LruHas(c, key)
    THEN [cache |-> Append(LruWithout(c, key), [k |-> key, v |-> value]),
          disposed |-> <<LruValue(c, key)>>]
    ELSE [cache |-> Append(c, [k |-> key, v |-> value]), disposed |-> <<>>]

\* c.set(key, value) of a cache of the given max: the cache afterwards and
\* the values handed to dispose.  The value set is a new object, never the
\* one held, so the value it replaces is disposed of; a new key in a full
\* cache takes the place of the least recently used entry.
LruSet(c, max, key, value) ==
    IF LruHas(c, key)
    THEN [cache |-> Append(LruWithout(c, key), [k |-> key, v |-> value]),
          disposed |-> <<LruValue(c, key)>>]
    ELSE IF Len(c) = max
    THEN [cache |-> Append(Tail(c), [k |-> key, v |-> value]), disposed |-> <<Head(c).v>>]
    ELSE [cache |-> Append(c, [k |-> key, v |-> value]), disposed |-> <<>>]

\* c.delete(key)
LruDelete(c, key) ==
    IF LruHas(c, key)
    THEN [cache |-> LruWithout(c, key), disposed |-> <<LruValue(c, key)>>]
    ELSE [cache |-> c, disposed |-> <<>>]

\* c.clear()
LruClear(c) == [cache |-> <<>>, disposed |-> [i \in 1..Len(c) |-> c[i].v]]

DisposeNothing(value, handles) == handles

\* dispose: (value) => value.sourceFile.forget(), when there is a source file
Dispose(value, handles) ==
    IF value.sourceFile # NoHandle THEN handles \cup {value.sourceFile} ELSE handles

\* dispose called with each of the values, in turn.
DisposeAll(values, handles) ==
    handles \cup UNION {Dispose(values[i], handles) : i \in 1..Len(values)}

\* The uses of a cache with one more: the key, at the operation of that
\* number.
UsedAt(uses, key, n) ==
    [k \in DOMAIN uses \cup {key} |-> IF k = key THEN n ELSE uses[k]]

LruFrame ==
    UNCHANGED <<cacheVars, keyVars, scopeVars, complexityVars, smellsVars, analyzeVars,
                refsVars, patternsVars, summaryVars, fileVars, limitVars, searchVars,
                parsedVars, contextVars, hierarchyVars>>

\* A file is rewritten with another content.
RewriteFile ==
    /\ Cardinality(rewritten) < MaxRewrites
    /\ \E path \in FilePaths \ rewritten : rewritten' = rewritten \cup {path}
    /\ UNCHANGED <<fileLru, symbolLru, forgotten, lruCall, lruPending, lruUses>>
    /\ LruFrame

\* setCachedFile(filePath, sourceFile), at its this.fileCache.set: the
\* source file is one newly parsed or, for a path that has an entry, the
\* one the entry holds (a project gives the same source file for a path as
\* long as it has not forgotten it); the hash is the one of the content.
SetCachedFileEntry ==
    /\ lruCall.n < MaxLruOps
    /\ \E path \in FilePaths, again \in BOOLEAN :
          /\ again => LruHas(fileLru, path)
          /\ LET sourceFile == IF again THEN LruValue(fileLru, path).sourceFile
                               ELSE FileCacheMax + 1 + lruCall.n
                 value == [sourceFile |-> sourceFile,
                           contentHash |-> Sha256Hex(ContentOf(path))]
                 set == LruSet(fileLru, FileCacheMax, path, value)
             IN  /\ fileLru' = set.cache
                 /\ forgotten' = DisposeAll(set.disposed, forgotten)
                 /\ lruCall' = [n |-> lruCall.n + 1, op |-> "setCachedFile",
                                cache |-> "files", key |-> path, result |-> value]
                 /\ lruUses' = [lruUses EXCEPT !.files = UsedAt(@, path, lruCall.n + 1)]
    /\ UNCHANGED <<symbolLru, rewritten, lruPending>>
    /\ LruFrame

\* getCachedFile(filePath) up to its await: this.fileCache.get; without an
\* entry undefined is returned at once.
GetCachedFileEntry ==
    /\ lruCall.n < MaxLruOps
    /\ lruPending = NoPending
    /\ \E path \in FilePaths :
          /\ fileLru' = LruGet(fileLru, path)
          /\ IF LruHas(fileLru, path)
             THEN /\ lruPending' = [key |-> path, cached |-> LruValue(fileLru, path)]
                  /\ lruUses' = [lruUses EXCEPT !.files = UsedAt(@, path, lruCall.n + 1)]
             ELSE UNCHANGED <<lruPending, lruUses>>
          /\ lruCall' = [n |-> lruCall.n + 1, op |-> "getCachedFile.get",
                         cache |-> "files", key |-> path, result |-> NoCachedFile]
    /\ UNCHANGED <<symbolLru, forgotten, rewritten>>
    /\ LruFrame

\* getCachedFile after isFileCacheValid: the entry read is returned when
\* its hash is the one of the content, else this.fileCache.delete(filePath)
\* and undefined.
GetCachedFileSettles ==
    /\ lruPending # NoPending
    /\ LET path == lruPending.key
           valid == HashValid(ContentOf(path), lruPending.cached.contentHash)
           delete == LruDelete(fileLru, path)
       IN  /\ fileLru' = IF valid THEN fileLru ELSE delete.cache
           /\ forgotten' = IF valid THEN forgotten
                           ELSE DisposeAll(delete.disposed, forgotten)
           /\ lruCall' = [lruCall EXCEPT !.op = "getCachedFile", !.cache = "files",
                                         !.key = path,
                                         !.result = IF valid THEN lruPending.cached
                                                    ELSE NoCachedFile]
    /\ lruPending' = NoPending
    /\ UNCHANGED <<symbolLru, rewritten, lruUses>>
    /\ LruFrame

\* setCachedSymbol(key, symbol)
SetCachedSymbol ==
    /\ lruCall.n < MaxLruOps
    /\ \E key \in SymbolKeys :
          /\ symbolLru' = LruSet(symbolLru, SymbolCacheMax, key, key).cache
          /\ lruCall' = [n |-> lruCall.n + 1, op |-> "setCachedSymbol",
                         cache |-> "symbols", key |-> key, result |-> NoCachedFile]
          /\ lruUses' = [lruUses EXCEPT !.symbols = UsedAt(@, key, lruCall.n + 1)]
    /\ UNCHANGED <<fileLru, forgotten, rewritten, lruPending>>
    /\ LruFrame

\* getCachedSymbol(key)
GetCachedSymbol ==
    /\ lruCall.n < MaxLruOps
    /\ \E key \in SymbolKeys :
          /\ symbolLru' = LruGet(symbolLru, key)
          /\ lruCall' = [n |-> lruCall.n + 1, op |-> "getCachedSymbol",
                         cache |-> "symbols", key |-> key, result |-> NoCachedFile]
          /\ lruUses' = IF LruHas(symbolLru, key)
                        THEN [lruUses EXCEPT !.symbols = UsedAt(@, key, lruCall.n + 1)]
                        ELSE lruUses
    /\ UNCHANGED <<fileLru, forgotten, rewritten, lruPending>>
    /\ LruFrame

\* clearFileCache()
ClearFileCache ==
    /\ lruCall.n < MaxLruOps
    /\ fileLru' = LruClear(fileLru).cache
    /\ forgotten' = DisposeAll(LruClear(fileLru).disposed, forgotten)
    /\ lruCall' = [n |-> lruCall.n + 1, op |-> "clearFileCache", cache |-> "files",
                   key |-> 0, result |-> NoCachedFile]
    /\ UNCHANGED <<symbolLru, rewritten, lruPending, lruUses>>
    /\ LruFrame

\* clearSymbolCache()
ClearSymbolCache ==
    /\ lruCall.n < MaxLruOps
    /\ symbolLru' = LruClear(symbolLru).cache
    /\ lruCall' = [n |-> lruCall.n + 1, op |-> "clearSymbolCache", cache |-> "symbols",
                   key |-> 0, result |-> NoCachedFile]
    /\ UNCHANGED <<fileLru, forgotten, rewritten, lruPending, lruUses>>
    /\ LruFrame

\* clearAll(), as far as the two bounded caches go.
ClearAll ==
    /\ lruCall.n < MaxLruOps
    /\ fileLru' = LruClear(fileLru).cache
    /\ forgotten' = DisposeAll(LruClear(fileLru).disposed, forgotten)
    /\ symbolLru' = LruClear(symbolLru).cache
    /\ lruCall' = [n |-> lruCall.n + 1, op |-> "clearAll", cache |-> "all",
                   key |-> 0, result |-> NoCachedFile]
    /\ UNCHANGED <<rewritten, lruPending, lruUses>>
    /\ LruFrame

NextLru ==
    \/ RewriteFile
    \/ SetCachedFileEntry \/ GetCachedFileEntry \/ GetCachedFileSettles
    \/ SetCachedSymbol \/ GetCachedSymbol
    \/ ClearFileCache \/ ClearSymbolCache \/ ClearAll

LruRange(c) == {c[i] : i \in 1..Len(c)}

\* When a key of a cache was last used: at the operation of that number
\* or, for a key that no operation used, when the warm cache was filled.
UseTime(uses, key, max) == IF key \in DOMAIN uses THEN max + uses[key] ELSE key

\* The step inserts a new key into the cache when it is full, and the one
\* entry that leaves is of a key no other key of the cache was used before.
EvictsLeastRecentlyUsed(c, cAfter, uses, max, key) ==
    (Len(c) = max /\ ~LruHas(c, key))
    => LET gone == LruKeys(c) \ LruKeys(cAfter)
       IN  /\ Cardinality(gone) = 1
           /\ LruKeys(cAfter) = (LruKeys(c) \ gone) \cup {key}
           /\ \A g \in gone : \A k \in LruKeys(c) :
                 UseTime(uses, g, max) <= UseTime(uses, k, max)

\* C21: the parsed-file cache never holds more than 1000 entries and the
\* symbol cache never more than 10000, and a set of a new key into a full
\* cache evicts the entry that was least recently used, a get and a set
\* both being uses.
BoundedAndLeastRecentlyUsedEvicted ==
    [][/\ Len(fileLru) <= FileCacheMax /\ Len(fileLru') <= FileCacheMax
       /\ Len(symbolLru) <= SymbolCacheMax /\ Len(symbolLru') <= SymbolCacheMax
       /\ (lruCall'.n # lruCall.n /\ lruCall'.op = "setCachedFile")
          => EvictsLeastRecentlyUsed(fileLru, fileLru', lruUses.files, FileCacheMax,
                                     lruCall'.key)
       /\ (lruCall'.n # lruCall.n /\ lruCall'.op = "setCachedSymbol")
          => EvictsLeastRecentlyUsed(symbolLru, symbolLru', lruUses.symbols,
                                     SymbolCacheMax, lruCall'.key)]_vars

\* A new path was set into the full parsed-file cache after a get of its
\* oldest entry: the cache is still full, the entry got is kept and the
\* second oldest is gone.
EvictedAfterGetWitness ==
    /\ lruCall.op = "setCachedFile"
    /\ lruCall.key = FileCacheMax + 1
    /\ Len(fileLru) = FileCacheMax
    /\ LruHas(fileLru, 1)
    /\ ~LruHas(fileLru, 2)
    /\ 1 \in DOMAIN lruUses.files

\* C22: the source file of an entry that leaves the parsed-file cache, by
\* eviction from the full cache, by the deletion of a stale entry in
\* getCachedFile, by clearFileCache or clearAll, or by being replaced, has
\* been forgotten when the entry is gone.
HandleReleasedWhenEntryLeaves ==
    [][\A e \in LruRange(fileLru) \ LruRange(fileLru') :
          e.v.sourceFile \in forgotten']_vars

\* getCachedFile found the entry of a rewritten file stale and deleted it
\* from the warm cache: undefined returned, the entry gone, its source file
\* forgotten.
StaleEntryForgottenWitness ==
    /\ lruCall.op = "getCachedFile"
    /\ lruCall.result = NoCachedFile
    /\ lruCall.key \in rewritten
    /\ ~LruHas(fileLru, lruCall.key)
    /\ Len(fileLru) = FileCacheMax - 1
    /\ lruCall.key \in forgotten

\* C27: no entry of the parsed-file cache holds a source file that has
\* been forgotten.  (Violated: a setCachedFile of the source file that the
\* entry of the path already holds disposes of the replaced value, and so
\* forgets the source file the new entry holds.)
CachedSourceFilesNotForgotten ==
    \A i \in 1..Len(fileLru) : fileLru[i].v.sourceFile \notin forgotten

(***************************************************************************)
(* Numbers.  A JavaScript number is an IEEE 754 double.  A positive one is *)
(* [hi, mid, lo, exp]: its significand of 53 bits, the first of them 1, in *)
(* three parts of 18, 18 and 17 bits, and the power of two the significand *)
(* is multiplied by.  / and * give the double nearest to the exact result, *)
(* a tie going to the even significand.  The integers that are divided and *)
(* multiplied are below 2^13.                                              *)
(***************************************************************************)
\* The bits of the significand, and of its parts.
Precision == 53
HiBits == 18
MidBits == 18
LoBits == 17

\* The double above the one of the parts hi, mid, lo when up, else that one.
RoundToDouble(hi, mid, lo, exp, up) ==
    IF ~up THEN [hi |-> hi, mid |-> mid, lo |-> lo, exp |-> exp]
    ELSE IF lo + 1 < 2^LoBits THEN [hi |-> hi, mid |-> mid, lo |-> lo + 1, exp |-> exp]
    ELSE IF mid + 1 < 2^MidBits THEN [hi |-> hi, mid |-> mid + 1, lo |-> 0, exp |-> exp]
    ELSE IF hi + 1 < 2^HiBits THEN [hi |-> hi + 1, mid |-> 0, lo |-> 0, exp |-> exp]
    ELSE [hi |-> 2^(HiBits - 1), mid |-> 0, lo |-> 0, exp |-> exp + 1]

\* a / b for integers 0 < a < b: long division from the first 1 bit of the
\* quotient on, 53 bits and the bit after them; what remains makes the
\* quotient more than those bits.
DivideDouble(a, b) ==
    LET zeros == CHOOSE z \in 0..13 : a * 2^z < b /\ a * 2^(z + 1) >= b
        r0 == a * 2^zeros
        hi == (r0 * 2^HiBits) \div b
        r1 == (r0 * 2^HiBits) % b
        mid == (r1 * 2^MidBits) \div b
        r2 == (r1 * 2^MidBits) % b
        lo == (r2 * 2^LoBits) \div b
        r3 == (r2 * 2^LoBits) % b
        guard == (2 * r3) \div b
        r4 == (2 * r3) % b
    IN  RoundToDouble(hi, mid, lo, -(zeros + Precision),
                      guard = 1 /\ (r4 # 0 \/ lo % 2 = 1))

\* k * x for an integer k > 0 and a double x: the exact product, then the
\* bits beyond the 53rd are dropped, the first of them and the others
\* deciding the rounding.
TimesDouble(k, x) ==
    LET p0 == x.lo * k
        p1 == x.mid * k + p0 \div 2^LoBits
        p2 == x.hi * k + p1 \div 2^MidBits
        lo == p0 % 2^LoBits
        mid == p1 % 2^MidBits
        s == CHOOSE n \in 0..13 : 2^(HiBits - 1 + n) <= p2 /\ p2 < 2^(HiBits + n)
        dropped == lo % 2^s
        guard == IF s = 0 THEN 0 ELSE dropped \div 2^(s - 1)
        sticky == s > 0 /\ dropped % 2^(s - 1) # 0
        newLo == lo \div 2^s + (mid % 2^s) * 2^(LoBits - s)
        newMid == mid \div 2^s + (p2 % 2^s) * 2^(MidBits - s)
    IN  RoundToDouble(p2 \div 2^s, newMid, newLo, x.exp + s,
                      guard = 1 /\ (sticky \/ newLo % 2 = 1))

\* Math.floor(x) for a double x below 2^13: the bits of the significand
\* above the binary point.
FloorDouble(x) ==
    IF Precision + x.exp <= 0 THEN 0 ELSE x.hi \div 2^(HiBits - (Precision + x.exp))

(***************************************************************************)
(* Context extraction: extractContext.  The text that the extractor of the *)
(* context type assembles is known by its length; the text returned is     *)
(* [chars, marker]: the first chars characters of the assembled text, with *)
(* or without "\n... (truncated)" after them.                              *)
(***************************************************************************)
\* Bounds: the length of the assembled text, the maxTokens given.
MaxContextLength == 88
MaxBudget == 15

DefaultMaxTokens == 2000
\* The length of "\n... (truncated)"
MarkerLength == 16

ContextTypes == {"function", "class", "module", "related"}
\* No position given, or one at which findSymbolAtPosition finds a node, or
\* one at which it finds none.
Positions == {"none", "found", "missing"}
Budgets == {NoValue} \cup {Given(n) : n \in 0..MaxBudget}

NoMainContext == [chars |-> 0, marker |-> FALSE]
TextLength(text) == text.chars + (IF text.marker THEN MarkerLength ELSE 0)

NoContextCall ==
    [called |-> FALSE, contextType |-> "", position |-> "none", length |-> 0,
     maxTokens |-> 0, status |-> "none", assembled |-> 0, mainContext |-> NoMainContext,
     tokenCount |-> 0]

\* The length of context.mainContext before the truncation: the extractors
\* of function, class and related need the target node.
AssembledLength(contextType, position, length) ==
    IF contextType = "module" \/ position = "found" THEN length ELSE 0

\* Math.floor(context.mainContext.length * ratio), ratio = maxTokens / tokenCount
NewLength(length, maxTokens, tokenCount) ==
    IF maxTokens = 0 THEN 0
    ELSE FloorDouble(TimesDouble(length, DivideDouble(maxTokens, tokenCount)))

ContextFrame ==
    UNCHANGED <<cacheVars, keyVars, scopeVars, complexityVars, smellsVars, analyzeVars,
                refsVars, patternsVars, summaryVars, fileVars, limitVars, searchVars,
                parsedVars, lruVars, hierarchyVars>>

\* extractContext(params), one call, from the target node on.
ExtractContextRun ==
    /\ contextCall = NoContextCall
    /\ \E contextType \in ContextTypes, position \in Positions,
          length \in 0..MaxContextLength, budget \in Budgets :
          LET maxTokens == IF budget.def THEN budget.n ELSE DefaultMaxTokens
              assembled == AssembledLength(contextType, position, length)
              tokenCount == assembled \div 4
              call == [NoContextCall EXCEPT !.called = TRUE, !.contextType = contextType,
                                            !.position = position, !.length = length,
                                            !.maxTokens = maxTokens]
          IN  contextCall' =
                IF position = "missing" THEN [call EXCEPT !.status = "error"]
                ELSE IF tokenCount > maxTokens
                THEN [call EXCEPT !.status = "ok", !.assembled = assembled,
                                  !.mainContext =
                                      [chars |-> NewLength(assembled, maxTokens, tokenCount),
                                       marker |-> TRUE],
                                  !.tokenCount = maxTokens]
                ELSE [call EXCEPT !.status = "ok", !.assembled = assembled,
                                  !.mainContext = [chars |-> assembled, marker |-> FALSE],
                                  !.tokenCount = tokenCount]
    /\ ContextFrame

NextContext == ExtractContextRun

\* C23: the estimate is floor(length / 4) of the assembled text; when it is
\* above maxTokens the text returned is the first
\* floor(length * maxTokens / estimate) characters followed by the marker;
\* when it is not, the text is returned whole and tokenCount is the
\* estimate.  (Violated: length * (maxTokens / estimate) is computed in
\* doubles, and the rounded quotient can put the product just below the
\* exact integer.)
TruncatedInProportion ==
    contextCall.status = "ok"
    => LET length == contextCall.assembled
           estimate == length \div 4
       IN  IF estimate > contextCall.maxTokens
           THEN contextCall.mainContext =
                    [chars |-> (length * contextCall.maxTokens) \div estimate,
                     marker |-> TRUE]
           ELSE /\ contextCall.mainContext = [chars |-> length, marker |-> FALSE]
                /\ contextCall.tokenCount = estimate

\* C29: a text that was truncated is within the budget, the marker
\* counted: floor of a fourth of its length is at most maxTokens.
\* (Violated: the marker is appended after the cut.)
TruncatedWithinBudget ==
    (contextCall.status = "ok" /\ contextCall.mainContext.marker)
    => TextLength(contextCall.mainContext) \div 4 <= contextCall.maxTokens

(***************************************************************************)
(* Type hierarchies: getTypeHierarchy.  The types are declared classes and *)
(* interfaces, known by their names; bases gives the base types of each in *)
(* the order getBaseTypes lists them.  The calls of processType that are   *)
(* still to be made are a stack, the next one first: a call puts the calls *)
(* for the base types of its type before those that were waiting.          *)
(***************************************************************************)
\* Bounds: the base types of all types together, the maxDepth given.
MaxBaseTypes == 4
MaxHierarchyDepth == 2

DefaultMaxDepth == 5

TypeNames == {"A", "B", "C", "D"}
RootType == "A"
Directions == {"ancestors", "descendants", "both"}
Depths == {NoValue} \cup {Given(n) : n \in 0..MaxHierarchyDepth}

\* The lists of base types a type can have: other types, none twice.
BaseLists(type) ==
    {s \in UNION {[1..n -> TypeNames \ {type}] : n \in 0..MaxBaseTypes} :
        \A i, j \in 1..Len(s) : i # j => s[i] # s[j]}

\* The hierarchies: cycles and diamonds are among them.
Hierarchies ==
    {bases \in {[A |-> a, B |-> b, C |-> c, D |-> d] :
                  a \in BaseLists("A"), b \in BaseLists("B"),
                  c \in BaseLists("C"), d \in BaseLists("D")} :
        Len(bases.A) + Len(bases.B) + Len(bases.C) + Len(bases.D) <= MaxBaseTypes}

NoHierarchyCall ==
    [phase |-> "idle", bases |-> [t \in TypeNames |-> <<>>], direction |-> "",
     maxDepth |-> 0, stack |-> <<>>, visited |-> {}, hierarchy |-> <<>>]

VisitedNever(name, visited) == FALSE

\* visited.has(name)
Visited(name, visited) == name \in visited

\* depth > maxDepth
TooDeep(depth, maxDepth) == depth > maxDepth

HierarchyFrame ==
    UNCHANGED <<cacheVars, keyVars, scopeVars, complexityVars, smellsVars, analyzeVars,
                refsVars, patternsVars, summaryVars, fileVars, limitVars, searchVars,
                parsedVars, lruVars, contextVars>>

\* The calls: a hierarchy, a direction, and a maxDepth given or not.
HierarchyCalls ==
    {[NoHierarchyCall EXCEPT
        !.bases = bases, !.direction = direction,
        !.maxDepth = IF depth.def THEN depth.n ELSE DefaultMaxDepth] :
        bases \in Hierarchies, direction \in Directions, depth \in Depths}

\* getTypeHierarchy(node, direction, maxDepth) up to processType(type, 0)
GetTypeHierarchy ==
    /\ hierarchyCall.phase = "idle"
    /\ hierarchyCall' =
          [hierarchyCall EXCEPT !.phase = "running",
                                !.stack = <<[type |-> RootType, depth |-> 0]>>]
    /\ HierarchyFrame

\* processType(type, depth), the next call: nothing for a type too deep or
\* of a name visited; else the type is listed and, for ancestors and both,
\* its base types are processed one deeper, in their order.
ProcessType ==
    /\ hierarchyCall.phase = "running"
    /\ hierarchyCall.stack # <<>>
    /\ LET call == Head(hierarchyCall.stack)
           waiting == Tail(hierarchyCall.stack)
           baseTypes == hierarchyCall.bases[call.type]
           calls == IF hierarchyCall.direction \in {"ancestors", "both"}
                    THEN [i \in 1..Len(baseTypes) |->
                            [type |-> baseTypes[i], depth |-> call.depth + 1]]
                    ELSE <<>>
       IN  hierarchyCall' =
             IF TooDeep(call.depth, hierarchyCall.maxDepth)
                \/ Visited(call.type, hierarchyCall.visited)
             THEN [hierarchyCall EXCEPT !.stack = waiting]
             ELSE [hierarchyCall EXCEPT
                     !.visited = @ \cup {call.type},
                     !.hierarchy = Append(@, [name |-> call.type, depth |-> call.depth]),
                     !.stack = calls \o waiting]
    /\ HierarchyFrame

\* return hierarchy
GetTypeHierarchyReturns ==
    /\ hierarchyCall.phase = "running"
    /\ hierarchyCall.stack = <<>>
    /\ hierarchyCall' = [hierarchyCall EXCEPT !.phase = "returned"]
    /\ HierarchyFrame

NextHierarchy == GetTypeHierarchy \/ ProcessType \/ GetTypeHierarchyReturns

HierarchyNames == {hierarchyCall.hierarchy[i].name : i \in 1..Len(hierarchyCall.hierarchy)}

\* C24: getTypeHierarchy returns for every hierarchy, cyclic and diamond
\* ones among them; no name is listed twice, and no type is listed that
\* was reached deeper than maxDepth.
ReturnsListingOnceWithinDepth ==
    /\ [](/\ \A i, j \in 1..Len(hierarchyCall.hierarchy) :
                i # j => hierarchyCall.hierarchy[i].name # hierarchyCall.hierarchy[j].name
          /\ \A i \in 1..Len(hierarchyCall.hierarchy) :
                hierarchyCall.hierarchy[i].depth <= hierarchyCall.maxDepth)
    /\ (hierarchyCall.phase = "running" ~> hierarchyCall.phase = "returned")

\* The call has returned from the cycle A, B, A with a third type beyond
\* maxDepth: A and B are listed, once each.
CyclicHierarchyWitness ==
    /\ hierarchyCall.phase = "returned"
    /\ hierarchyCall.direction = "ancestors"
    /\ hierarchyCall.maxDepth = 2
    /\ hierarchyCall.bases["A"] = <<"B">>
    /\ hierarchyCall.bases["B"] = <<"A", "C">>
    /\ hierarchyCall.bases["C"] = <<"D">>
    /\ HierarchyNames = {"A", "B", "C"}
    /\ Len(hierarchyCall.hierarchy) = 3

\* The types at a base-type distance of at most n from the type.
RECURSIVE Within(_, _, _)
Within(bases, type, n) ==
    IF n = 0 THEN {type}
    ELSE {type} \cup UNION {Within(bases, bases[type][i], n - 1) : i \in 1..Len(bases[type])}

\* C30: for direction ancestors, every type whose shortest base-type
\* distance from the root is at most maxDepth is listed, in whatever order
\* the base types are visited.  (Violated: a type first reached on a longer
\* path is marked visited, and its base types, too deep on that path, are
\* not processed again when it is reached on the shorter one.)
EveryAncestorWithinDepthListed ==
    (hierarchyCall.phase = "returned" /\ hierarchyCall.direction = "ancestors")
    => Within(hierarchyCall.bases, RootType, hierarchyCall.maxDepth) \subseteq HierarchyNames

(***************************************************************************)
(* The specifications: one per area, the other areas idle.                 *)
(***************************************************************************)
\* The analysis cache of a freshly constructed CacheManager, under each of
\* the ttl options.
InitCache ==
    /\ analysisStore = EmptyStore
    /\ now = 0
    /\ optionsTtl \in TtlOptions
    /\ cacheOp = NoOp
    /\ lastSet = EmptyStore
    /\ keyPrev = NoKeyCall
    /\ keyLast = NoKeyCall
    /\ toolCall = NoToolCall
    /\ complexityCalls = <<>>
    /\ smellsCall = NoSmellsCall
    /\ analyzeCall = NoAnalyzeCall
    /\ refsCall = NoRefsCall
    /\ extractCall = NoExtractCall
    /\ patternsCall = NoPatternsCall
    /\ summaryCall = NoSummaryCall
    /\ caches = NoCaches
    /\ clock = 0
    /\ fileCall = NoFileCall
    /\ limiter = NoLimiter
    /\ fanOuts = NoFanOuts
    /\ searchCall = NoSearchCall
    /\ optionsInvalidation = ""
    /\ fileCache = NoParsedFile
    /\ disk = InitialDisk
    /\ workers = NoWorkers
    /\ started = NoStarted
    /\ fileLru = <<>>
    /\ symbolLru = <<>>
    /\ forgotten = {}
    /\ rewritten = {}
    /\ lruCall = NoLruCall
    /\ lruPending = NoPending
    /\ lruUses = NoUses
    /\ contextCall = NoContextCall
    /\ hierarchyCall = NoHierarchyCall

SpecCache == InitCache /\ [][NextCache]_vars

InitKey ==
    /\ analysisStore = EmptyStore
    /\ now = 0
    /\ optionsTtl = 0
    /\ cacheOp = NoOp
    /\ lastSet = EmptyStore
    /\ keyPrev = NoKeyCall
    /\ keyLast = NoKeyCall
    /\ toolCall = NoToolCall
    /\ complexityCalls = <<>>
    /\ smellsCall = NoSmellsCall
    /\ analyzeCall = NoAnalyzeCall
    /\ refsCall = NoRefsCall
    /\ extractCall = NoExtractCall
    /\ patternsCall = NoPatternsCall
    /\ summaryCall = NoSummaryCall
    /\ caches = NoCaches
    /\ clock = 0
    /\ fileCall = NoFileCall
    /\ limiter = NoLimiter
    /\ fanOuts = NoFanOuts
    /\ searchCall = NoSearchCall
    /\ optionsInvalidation = ""
    /\ fileCache = NoParsedFile
    /\ disk = InitialDisk
    /\ workers = NoWorkers
    /\ started = NoStarted
    /\ fileLru = <<>>
    /\ symbolLru = <<>>
    /\ forgotten = {}
    /\ rewritten = {}
    /\ lruCall = NoLruCall
    /\ lruPending = NoPending
    /\ lruUses = NoUses
    /\ contextCall = NoContextCall
    /\ hierarchyCall = NoHierarchyCall

SpecKey == InitKey /\ [][NextKey]_vars

InitScope ==
    /\ analysisStore = EmptyStore
    /\ now = 0
    /\ optionsTtl = 0
    /\ cacheOp = NoOp
    /\ lastSet = EmptyStore
    /\ keyPrev = NoKeyCall
    /\ keyLast = NoKeyCall
    /\ toolCall = NoToolCall
    /\ complexityCalls = <<>>
    /\ smellsCall = NoSmellsCall
    /\ analyzeCall = NoAnalyzeCall
    /\ refsCall = NoRefsCall
    /\ extractCall = NoExtractCall
    /\ patternsCall = NoPatternsCall
    /\ summaryCall = NoSummaryCall
    /\ caches = NoCaches
    /\ clock = 0
    /\ fileCall = NoFileCall
    /\ limiter = NoLimiter
    /\ fanOuts = NoFanOuts
    /\ searchCall = NoSearchCall
    /\ optionsInvalidation = ""
    /\ fileCache = NoParsedFile
    /\ disk = InitialDisk
    /\ workers = NoWorkers
    /\ started = NoStarted
    /\ fileLru = <<>>
    /\ symbolLru = <<>>
    /\ forgotten = {}
    /\ rewritten = {}
    /\ lruCall = NoLruCall
    /\ lruPending = NoPending
    /\ lruUses = NoUses
    /\ contextCall = NoContextCall
    /\ hierarchyCall = NoHierarchyCall

SpecScope == InitScope /\ [][NextScope]_vars

InitComplexity ==
    /\ analysisStore = EmptyStore
    /\ now = 0
    /\ optionsTtl = 0
    /\ cacheOp = NoOp
    /\ lastSet = EmptyStore
    /\ keyPrev = NoKeyCall
    /\ keyLast = NoKeyCall
    /\ toolCall = NoToolCall
    /\ complexityCalls = <<>>
    /\ smellsCall = NoSmellsCall
    /\ analyzeCall = NoAnalyzeCall
    /\ refsCall = NoRefsCall
    /\ extractCall = NoExtractCall
    /\ patternsCall = NoPatternsCall
    /\ summaryCall = NoSummaryCall
    /\ caches = NoCaches
    /\ clock = 0
    /\ fileCall = NoFileCall
    /\ limiter = NoLimiter
    /\ fanOuts = NoFanOuts
    /\ searchCall = NoSearchCall
    /\ optionsInvalidation = ""
    /\ fileCache = NoParsedFile
    /\ disk = InitialDisk
    /\ workers = NoWorkers
    /\ started = NoStarted
    /\ fileLru = <<>>
    /\ symbolLru = <<>>
    /\ forgotten = {}
    /\ rewritten = {}
    /\ lruCall = NoLruCall
    /\ lruPending = NoPending
    /\ lruUses = NoUses
    /\ contextCall = NoContextCall
    /\ hierarchyCall = NoHierarchyCall

SpecComplexity == InitComplexity /\ [][NextComplexity]_vars

InitSmells ==
    /\ analysisStore = EmptyStore
    /\ now = 0
    /\ optionsTtl = 0
    /\ cacheOp = NoOp
    /\ lastSet = EmptyStore
    /\ keyPrev = NoKeyCall
    /\ keyLast = NoKeyCall
    /\ toolCall = NoToolCall
    /\ complexityCalls = <<>>
    /\ smellsCall = NoSmellsCall
    /\ analyzeCall = NoAnalyzeCall
    /\ refsCall = NoRefsCall
    /\ extractCall = NoExtractCall
    /\ patternsCall = NoPatternsCall
    /\ summaryCall = NoSummaryCall
    /\ caches = NoCaches
    /\ clock = 0
    /\ fileCall = NoFileCall
    /\ limiter = NoLimiter
    /\ fanOuts = NoFanOuts
    /\ searchCall = NoSearchCall
    /\ optionsInvalidation = ""
    /\ fileCache = NoParsedFile
    /\ disk = InitialDisk
    /\ workers = NoWorkers
    /\ started = NoStarted
    /\ fileLru = <<>>
    /\ symbolLru = <<>>
    /\ forgotten = {}
    /\ rewritten = {}
    /\ lruCall = NoLruCall
    /\ lruPending = NoPending
    /\ lruUses = NoUses
    /\ contextCall = NoContextCall
    /\ hierarchyCall = NoHierarchyCall

SpecSmells == InitSmells /\ [][NextSmells]_vars

InitAnalyze ==
    /\ analysisStore = EmptyStore
    /\ now = 0
    /\ optionsTtl = 0
    /\ cacheOp = NoOp
    /\ lastSet = EmptyStore
    /\ keyPrev = NoKeyCall
    /\ keyLast = NoKeyCall
    /\ toolCall = NoToolCall
    /\ complexityCalls = <<>>
    /\ smellsCall = NoSmellsCall
    /\ analyzeCall = NoAnalyzeCall
    /\ refsCall = NoRefsCall
    /\ extractCall = NoExtractCall
    /\ patternsCall = NoPatternsCall
    /\ summaryCall = NoSummaryCall
    /\ caches = NoCaches
    /\ clock = 0
    /\ fileCall = NoFileCall
    /\ limiter = NoLimiter
    /\ fanOuts = NoFanOuts
    /\ searchCall = NoSearchCall
    /\ optionsInvalidation = ""
    /\ fileCache = NoParsedFile
    /\ disk = InitialDisk
    /\ workers = NoWorkers
    /\ started = NoStarted
    /\ fileLru = <<>>
    /\ symbolLru = <<>>
    /\ forgotten = {}
    /\ rewritten = {}
    /\ lruCall = NoLruCall
    /\ lruPending = NoPending
    /\ lruUses = NoUses
    /\ contextCall = NoContextCall
    /\ hierarchyCall = NoHierarchyCall

SpecAnalyze == InitAnalyze /\ [][NextAnalyze]_vars

InitRefs ==
    /\ analysisStore = EmptyStore
    /\ now = 0
    /\ optionsTtl = 0
    /\ cacheOp = NoOp
    /\ lastSet = EmptyStore
    /\ keyPrev = NoKeyCall
    /\ keyLast = NoKeyCall
    /\ toolCall = NoToolCall
    /\ complexityCalls = <<>>
    /\ smellsCall = NoSmellsCall
    /\ analyzeCall = NoAnalyzeCall
    /\ refsCall = NoRefsCall
    /\ extractCall = NoExtractCall
    /\ patternsCall = NoPatternsCall
    /\ summaryCall = NoSummaryCall
    /\ caches = NoCaches
    /\ clock = 0
    /\ fileCall = NoFileCall
    /\ limiter = NoLimiter
    /\ fanOuts = NoFanOuts
    /\ searchCall = NoSearchCall
    /\ optionsInvalidation = ""
    /\ fileCache = NoParsedFile
    /\ disk = InitialDisk
    /\ workers = NoWorkers
    /\ started = NoStarted
    /\ fileLru = <<>>
    /\ symbolLru = <<>>
    /\ forgotten = {}
    /\ rewritten = {}
    /\ lruCall = NoLruCall
    /\ lruPending = NoPending
    /\ lruUses = NoUses
    /\ contextCall = NoContextCall
    /\ hierarchyCall = NoHierarchyCall

SpecRefs == InitRefs /\ [][NextRefs]_vars

InitPatterns ==
    /\ analysisStore = EmptyStore
    /\ now = 0
    /\ optionsTtl = 0
    /\ cacheOp = NoOp
    /\ lastSet = EmptyStore
    /\ keyPrev = NoKeyCall
    /\ keyLast = NoKeyCall
    /\ toolCall = NoToolCall
    /\ complexityCalls = <<>>
    /\ smellsCall = NoSmellsCall
    /\ analyzeCall = NoAnalyzeCall
    /\ refsCall = NoRefsCall
    /\ extractCall = NoExtractCall
    /\ patternsCall = NoPatternsCall
    /\ summaryCall = NoSummaryCall
    /\ caches = NoCaches
    /\ clock = 0
    /\ fileCall = NoFileCall
    /\ limiter = NoLimiter
    /\ fanOuts = NoFanOuts
    /\ searchCall = NoSearchCall
    /\ optionsInvalidation = ""
    /\ fileCache = NoParsedFile
    /\ disk = InitialDisk
    /\ workers = NoWorkers
    /\ started = NoStarted
    /\ fileLru = <<>>
    /\ symbolLru = <<>>
    /\ forgotten = {}
    /\ rewritten = {}
    /\ lruCall = NoLruCall
    /\ lruPending = NoPending
    /\ lruUses = NoUses
    /\ contextCall = NoContextCall
    /\ hierarchyCall = NoHierarchyCall

SpecPatterns == InitPatterns /\ [][NextPatterns]_vars

InitSummary ==
    /\ analysisStore = EmptyStore
    /\ now = 0
    /\ optionsTtl = 0
    /\ cacheOp = NoOp
    /\ lastSet = EmptyStore
    /\ keyPrev = NoKeyCall
    /\ keyLast = NoKeyCall
    /\ toolCall = NoToolCall
    /\ complexityCalls = <<>>
    /\ smellsCall = NoSmellsCall
    /\ analyzeCall = NoAnalyzeCall
    /\ refsCall = NoRefsCall
    /\ extractCall = NoExtractCall
    /\ patternsCall = NoPatternsCall
    /\ summaryCall = NoSummaryCall
    /\ caches = NoCaches
    /\ clock = 0
    /\ fileCall = NoFileCall
    /\ limiter = NoLimiter
    /\ fanOuts = NoFanOuts
    /\ searchCall = NoSearchCall
    /\ optionsInvalidation = ""
    /\ fileCache = NoParsedFile
    /\ disk = InitialDisk
    /\ workers = NoWorkers
    /\ started = NoStarted
    /\ fileLru = <<>>
    /\ symbolLru = <<>>
    /\ forgotten = {}
    /\ rewritten = {}
    /\ lruCall = NoLruCall
    /\ lruPending = NoPending
    /\ lruUses = NoUses
    /\ contextCall = NoContextCall
    /\ hierarchyCall = NoHierarchyCall

SpecSummary == InitSummary /\ [][NextSummary]_vars

InitFile ==
    /\ analysisStore = EmptyStore
    /\ now = 0
    /\ optionsTtl = 0
    /\ cacheOp = NoOp
    /\ lastSet = EmptyStore
    /\ keyPrev = NoKeyCall
    /\ keyLast = NoKeyCall
    /\ toolCall = NoToolCall
    /\ complexityCalls = <<>>
    /\ smellsCall = NoSmellsCall
    /\ analyzeCall = NoAnalyzeCall
    /\ refsCall = NoRefsCall
    /\ extractCall = NoExtractCall
    /\ patternsCall = NoPatternsCall
    /\ summaryCall = NoSummaryCall
    /\ caches = NoCaches
    /\ clock = 0
    /\ fileCall = NoFileCall
    /\ limiter = NoLimiter
    /\ fanOuts = NoFanOuts
    /\ searchCall = NoSearchCall
    /\ optionsInvalidation = ""
    /\ fileCache = NoParsedFile
    /\ disk = InitialDisk
    /\ workers = NoWorkers
    /\ started = NoStarted
    /\ fileLru = <<>>
    /\ symbolLru = <<>>
    /\ forgotten = {}
    /\ rewritten = {}
    /\ lruCall = NoLruCall
    /\ lruPending = NoPending
    /\ lruUses = NoUses
    /\ contextCall = NoContextCall
    /\ hierarchyCall = NoHierarchyCall

SpecFile == InitFile /\ [][NextFile]_vars

InitLimit ==
    /\ analysisStore = EmptyStore
    /\ now = 0
    /\ optionsTtl = 0
    /\ cacheOp = NoOp
    /\ lastSet = EmptyStore
    /\ keyPrev = NoKeyCall
    /\ keyLast = NoKeyCall
    /\ toolCall = NoToolCall
    /\ complexityCalls = <<>>
    /\ smellsCall = NoSmellsCall
    /\ analyzeCall = NoAnalyzeCall
    /\ refsCall = NoRefsCall
    /\ extractCall = NoExtractCall
    /\ patternsCall = NoPatternsCall
    /\ summaryCall = NoSummaryCall
    /\ caches = NoCaches
    /\ clock = 0
    /\ fileCall = NoFileCall
    /\ limiter = NoLimiter
    /\ fanOuts = NoFanOuts
    /\ searchCall = NoSearchCall
    /\ optionsInvalidation = ""
    /\ fileCache = NoParsedFile
    /\ disk = InitialDisk
    /\ workers = NoWorkers
    /\ started = NoStarted
    /\ fileLru = <<>>
    /\ symbolLru = <<>>
    /\ forgotten = {}
    /\ rewritten = {}
    /\ lruCall = NoLruCall
    /\ lruPending = NoPending
    /\ lruUses = NoUses
    /\ contextCall = NoContextCall
    /\ hierarchyCall = NoHierarchyCall

SpecLimit == InitLimit /\ [][NextLimit]_vars

InitSearch ==
    /\ analysisStore = EmptyStore
    /\ now = 0
    /\ optionsTtl = 0
    /\ cacheOp = NoOp
    /\ lastSet = EmptyStore
    /\ keyPrev = NoKeyCall
    /\ keyLast = NoKeyCall
    /\ toolCall = NoToolCall
    /\ complexityCalls = <<>>
    /\ smellsCall = NoSmellsCall
    /\ analyzeCall = NoAnalyzeCall
    /\ refsCall = NoRefsCall
    /\ extractCall = NoExtractCall
    /\ patternsCall = NoPatternsCall
    /\ summaryCall = NoSummaryCall
    /\ caches = NoCaches
    /\ clock = 0
    /\ fileCall = NoFileCall
    /\ limiter = NoLimiter
    /\ fanOuts = NoFanOuts
    /\ searchCall = NoSearchCall
    /\ optionsInvalidation = ""
    /\ fileCache = NoParsedFile
    /\ disk = InitialDisk
    /\ workers = NoWorkers
    /\ started = NoStarted
    /\ fileLru = <<>>
    /\ symbolLru = <<>>
    /\ forgotten = {}
    /\ rewritten = {}
    /\ lruCall = NoLruCall
    /\ lruPending = NoPending
    /\ lruUses = NoUses
    /\ contextCall = NoContextCall
    /\ hierarchyCall = NoHierarchyCall

SpecSearch == InitSearch /\ [][NextSearch]_vars

InitFileCache ==
    /\ analysisStore = EmptyStore
    /\ now = 0
    /\ optionsTtl = 0
    /\ cacheOp = NoOp
    /\ lastSet = EmptyStore
    /\ keyPrev = NoKeyCall
    /\ keyLast = NoKeyCall
    /\ toolCall = NoToolCall
    /\ complexityCalls = <<>>
    /\ smellsCall = NoSmellsCall
    /\ analyzeCall = NoAnalyzeCall
    /\ refsCall = NoRefsCall
    /\ extractCall = NoExtractCall
    /\ patternsCall = NoPatternsCall
    /\ summaryCall = NoSummaryCall
    /\ caches = NoCaches
    /\ clock = 0
    /\ fileCall = NoFileCall
    /\ limiter = NoLimiter
    /\ fanOuts = NoFanOuts
    /\ searchCall = NoSearchCall
    /\ optionsInvalidation \in InvalidationOptions
    /\ fileCache = NoParsedFile
    /\ disk = InitialDisk
    /\ workers = NoWorkers
    /\ started = NoStarted
    /\ fileLru = <<>>
    /\ symbolLru = <<>>
    /\ forgotten = {}
    /\ rewritten = {}
    /\ lruCall = NoLruCall
    /\ lruPending = NoPending
    /\ lruUses = NoUses
    /\ contextCall = NoContextCall
    /\ hierarchyCall = NoHierarchyCall

SpecFileCache == InitFileCache /\ [][NextFileCache]_vars

InitLru ==
    /\ analysisStore = EmptyStore
    /\ now = 0
    /\ optionsTtl = 0
    /\ cacheOp = NoOp
    /\ lastSet = EmptyStore
    /\ keyPrev = NoKeyCall
    /\ keyLast = NoKeyCall
    /\ toolCall = NoToolCall
    /\ complexityCalls = <<>>
    /\ smellsCall = NoSmellsCall
    /\ analyzeCall = NoAnalyzeCall
    /\ refsCall = NoRefsCall
    /\ extractCall = NoExtractCall
    /\ patternsCall = NoPatternsCall
    /\ summaryCall = NoSummaryCall
    /\ caches = NoCaches
    /\ clock = 0
    /\ fileCall = NoFileCall
    /\ limiter = NoLimiter
    /\ fanOuts = NoFanOuts
    /\ searchCall = NoSearchCall
    /\ optionsInvalidation = ""
    /\ fileCache = NoParsedFile
    /\ disk = InitialDisk
    /\ workers = NoWorkers
    /\ started = NoStarted
    /\ fileLru \in {warm.files : warm \in WarmCaches}
    /\ symbolLru \in {warm.symbols : warm \in {w \in WarmCaches : w.files = fileLru}}
    /\ forgotten = {}
    /\ rewritten = {}
    /\ lruCall = NoLruCall
    /\ lruPending = NoPending
    /\ lruUses = NoUses
    /\ contextCall = NoContextCall
    /\ hierarchyCall = NoHierarchyCall

SpecLru == InitLru /\ [][NextLru]_vars

InitContext ==
    /\ analysisStore = EmptyStore
    /\ now = 0
    /\ optionsTtl = 0
    /\ cacheOp = NoOp
    /\ lastSet = EmptyStore
    /\ keyPrev = NoKeyCall
    /\ keyLast = NoKeyCall
    /\ toolCall = NoToolCall
    /\ complexityCalls = <<>>
    /\ smellsCall = NoSmellsCall
    /\ analyzeCall = NoAnalyzeCall
    /\ refsCall = NoRefsCall
    /\ extractCall = NoExtractCall
    /\ patternsCall = NoPatternsCall
    /\ summaryCall = NoSummaryCall
    /\ caches = NoCaches
    /\ clock = 0
    /\ fileCall = NoFileCall
    /\ limiter = NoLimiter
    /\ fanOuts = NoFanOuts
    /\ searchCall = NoSearchCall
    /\ optionsInvalidation = ""
    /\ fileCache = NoParsedFile
    /\ disk = InitialDisk
    /\ workers = NoWorkers
    /\ started = NoStarted
    /\ fileLru = <<>>
    /\ symbolLru = <<>>
    /\ forgotten = {}
    /\ rewritten = {}
    /\ lruCall = NoLruCall
    /\ lruPending = NoPending
    /\ lruUses = NoUses
    /\ contextCall = NoContextCall
    /\ hierarchyCall = NoHierarchyCall

SpecContext == InitContext /\ [][NextContext]_vars

InitHierarchy ==
    /\ analysisStore = EmptyStore
    /\ now = 0
    /\ optionsTtl = 0
    /\ cacheOp = NoOp
    /\ lastSet = EmptyStore
    /\ keyPrev = NoKeyCall
    /\ keyLast = NoKeyCall
    /\ toolCall = NoToolCall
    /\ complexityCalls = <<>>
    /\ smellsCall = NoSmellsCall
    /\ analyzeCall = NoAnalyzeCall
    /\ refsCall = NoRefsCall
    /\ extractCall = NoExtractCall
    /\ patternsCall = NoPatternsCall
    /\ summaryCall = NoSummaryCall
    /\ caches = NoCaches
    /\ clock = 0
    /\ fileCall = NoFileCall
    /\ limiter = NoLimiter
    /\ fanOuts = NoFanOuts
    /\ searchCall = NoSearchCall
    /\ optionsInvalidation = ""
    /\ fileCache = NoParsedFile
    /\ disk = InitialDisk
    /\ workers = NoWorkers
    /\ started = NoStarted
    /\ fileLru = <<>>
    /\ symbolLru = <<>>
    /\ forgotten = {}
    /\ rewritten = {}
    /\ lruCall = NoLruCall
    /\ lruPending = NoPending
    /\ lruUses = NoUses
    /\ contextCall = NoContextCall
    /\ hierarchyCall \in HierarchyCalls

\* processType runs to its end without a pause: a step that can be taken is taken.
SpecHierarchy == InitHierarchy /\ [][NextHierarchy]_vars /\ WF_vars(NextHierarchy)
====
